---- MODULE Spec2Model ----
(***************************************************************************)
(* Model of ballista's ShuffleWriterExec::execute_shuffle_write and of the *)
(* three shuffle sinks (FileShuffleWriter, FlightShuffleWriter,            *)
(* LocalShuffleWriter) in                                                  *)
(*   src/ballista/rust/core/src/execution_plans/shuffle_writer.rs          *)
(*                                                                         *)
(* and of VarianceAccumulator in                                           *)
(*   src/datafusion/src/physical_plan/expressions/variance.rs              *)
(*                                                                         *)
(* One node (job_id, stage_id, output_loc, shuffle_output_partitioning,    *)
(* metrics) is executed once per input partition.  Every invocation of     *)
(* execute_shuffle_write keeps its locals in call[i]; a step of an         *)
(* invocation runs from one await point to the next.                       *)
(***************************************************************************)
EXTENDS Integers, Sequences, FiniteSets, TLC

(* ------------------------------ bounds --------------------------------- *)

\* Longest input stream (record batches yielded by the child plan).
MaxBatches == 2

\* Numbers of rows a record batch of the input can hold.
RowCounts == {0, 2}

\* Capacity of the channels behind the caller-supplied local senders.
LocalCap == 1

\* Longest input stream in the runs that fill the channel of a Flight sink.
LongStream == 3

\* The longest input stream of each of two concurrent invocations.
ShortStream == 1

\* Most values a VarianceAccumulator is fed.
MaxCount == 3

\* Width, in bits, of the significand of the doubles in the runs that round
\* every arithmetic result.
Precision == 3

\* Lengths of the arrays / lists of state rows handed to a batch operation.
ArrayLens == {1, 2}

\* The non-null values of the aggregated column.
Values == {1, 3}

\* What the values buffer of an array may hold in a null slot.
NullSlotValues == {0, 7}

\* Input partitions of the child plan.
Inputs == {0, 1}

\* The input partition the node is executed on: an index that differs from
\* output partition 0.
Invoked == {1}

\* Numbers of output partitions a Hash partitioning may ask for.
PartitionCounts == {1, 2}

\* Values of the key column "a".
Keys == {0, 1}

\* Lengths of the executor list / of the local sender list.
ListLens == {1, 2}

(* --------------------------- program constants ------------------------- *)

\* channel(2) in FlightShuffleWriter::new
FlightChannelCap == 2

job_id == "job"

stage_id == 1

work_dir == "/work"

(* ------------------------------- state --------------------------------- *)

VARIABLES
    shuffle_output_partitioning, \* node field: [kind, n]
    output_loc,                  \* node field: [kind, len]
    metrics,                     \* node field: per input partition counters
    dirs,                        \* directories that exist on the local disk
    files,                       \* path -> IPC file [batches, finished]
    remote,                      \* <<executor, partition_id>> -> batches pushed
    chan,                        \* chan[i][p]: the mpsc channel of output p
    task,                        \* task[i][p]: the spawned push task of a Flight sink
    call,                        \* call[i]: locals of execute_shuffle_write(i, ..)
    accumulator,                 \* VarianceAccumulator [m2, mean, count, stats_type]
    last,                        \* the last call on the accumulator (history)
    fed                          \* the values update_batch was given (history)

vars == <<shuffle_output_partitioning, output_loc, metrics, dirs, files,
          remote, chan, task, call, accumulator, last, fed>>

node == <<shuffle_output_partitioning, output_loc>>

variance == <<accumulator, last, fed>>

(* ------------------------ record batches, rows ------------------------- *)

\* A row carries the key column "a" and a payload column that names the row:
\* <<index of its batch in the input stream, position in the batch>>.
Row(k, b, j) == [a |-> k, id |-> <<b, j>>]

\* The record batches the child plan can yield as its b-th batch.
BatchesAt(b) ==
    UNION { { [j \in 1..len |-> Row(ks[j], b, j - 1)] : ks \in [1..len -> Keys] }
            : len \in RowCounts }

num_rows_of(batch) == Len(batch)

\* Sum over the columns of get_array_memory_size: two columns, each with a
\* fixed footprint plus its values.
batch_size_bytes(batch) == 2 * (1 + Len(batch))

RECURSIVE Flatten(_)
Flatten(batches) ==
    IF batches = <<>> THEN <<>>
    ELSE Head(batches) \o Flatten(Tail(batches))

RECURSIVE SumRows(_)
SumRows(batches) ==
    IF batches = <<>> THEN 0
    ELSE Len(Head(batches)) + SumRows(Tail(batches))

RECURSIVE SumBytes(_)
SumBytes(batches) ==
    IF batches = <<>> THEN 0
    ELSE batch_size_bytes(Head(batches)) + SumBytes(Tail(batches))

(* --------------------------- hash repartition -------------------------- *)

\* ahash with RandomState::with_seeds(0, 0, 0, 0): a fixed function of the
\* key value (a stand-in table; the real one is 64 bits wide).
ahash(k) == 5 * k + 4

\* create_hashes(&arrays, &random_state, hashes_buf): the buffer is cleared
\* and resized with zeros, then every row's hash is combined from its keys.
create_hashes(arrays) == [j \in 1..Len(arrays) |-> ahash(arrays[j])]

\* exprs evaluated against the batch: the key column.
evaluate(batch) == [j \in 1..Len(batch) |-> batch[j].a]

\* Mutant of bucket: the row's position in the batch leaks into its bucket.
bucket_by_position(hash, index, num_output_partitions) ==
    (hash + index) % num_output_partitions

\* indices[(*hash % num_output_partitions as u64) as usize].push(index)
bucket(hash, index, num_output_partitions) == hash % num_output_partitions

\* Mutant of build_indices: the index is inserted at the front of the list.
build_indices_front(hashes, num_output_partitions) ==
    LET step[j \in 0..Len(hashes)] ==
            IF j = 0 THEN [p \in 0..(num_output_partitions - 1) |-> <<>>]
            ELSE LET b == bucket(hashes[j], j - 1, num_output_partitions)
                 IN  [step[j - 1] EXCEPT ![b] = <<j - 1>> \o @]
    IN  step[Len(hashes)]

\* The loop over hashes.iter().enumerate(): rows are appended to the index
\* list of their bucket in ascending index order.
build_indices(hashes, num_output_partitions) ==
    LET step[j \in 0..Len(hashes)] ==
            IF j = 0 THEN [p \in 0..(num_output_partitions - 1) |-> <<>>]
            ELSE LET b == bucket(hashes[j], j - 1, num_output_partitions)
                 IN  [step[j - 1] EXCEPT ![b] = Append(@, j - 1)]
    IN  step[Len(hashes)]

\* Mutant of take: the last index of the list is not taken.
take_short(batch, idx) ==
    [j \in 1..(IF Len(idx) = 0 THEN 0 ELSE Len(idx) - 1) |-> batch[idx[j] + 1]]

\* take(c, &indices, None) on every column: the rows at the indices, in
\* list order.
take(batch, idx) == [j \in 1..Len(idx) |-> batch[idx[j] + 1]]

(* -------------------------------- sinks -------------------------------- *)

NoWriter == [kind |-> "None", path |-> "", num_batches |-> 0, num_rows |-> 0,
             num_bytes |-> 0]

partition_dir(p) ==
    work_dir \o "/" \o job_id \o "/" \o ToString(stage_id) \o "/" \o ToString(p)

\* Mutant of shuffle_file_path: the file name does not carry the input
\* partition.
shuffle_file_path_shared(output_partition, input_partition) ==
    partition_dir(output_partition) \o "/data.arrow"

\* Mutant of shuffle_file_path: the directory is the input partition's and
\* the file name carries the output partition.
shuffle_file_path_swapped(output_partition, input_partition) ==
    partition_dir(input_partition) \o "/data-" \o ToString(output_partition)
        \o ".arrow"

\* <work_dir>/<job_id>/<stage_id>/<output_partition>/data-<input_partition>.arrow
shuffle_file_path(output_partition, input_partition) ==
    partition_dir(output_partition) \o "/data-" \o ToString(input_partition)
        \o ".arrow"

\* <work_dir>/<job_id>/<stage_id>/<input_partition>/data.arrow
passthrough_file_path(input_partition) ==
    partition_dir(input_partition) \o "/data.arrow"

FileShuffleWriter_new(path) ==
    [kind |-> "File", path |-> path, num_batches |-> 0, num_rows |-> 0,
     num_bytes |-> 0]

FlightShuffleWriter_new ==
    [kind |-> "Flight", path |-> "", num_batches |-> 0, num_rows |-> 0,
     num_bytes |-> 0]

LocalShuffleWriter_new ==
    [kind |-> "Local", path |-> "", num_batches |-> 0, num_rows |-> 0,
     num_bytes |-> 0]

\* The counter updates shared by the three write methods.
count_batch(w, batch) ==
    [w EXCEPT !.num_batches = @ + 1,
              !.num_rows = @ + num_rows_of(batch),
              !.num_bytes = @ + batch_size_bytes(batch)]

\* Mutant of FileShuffleWriter_write: the counters are updated before the
\* IPC write is tried.
FileShuffleWriter_write_counts_first(w, batch, ipc_ok) ==
    [writer |-> count_batch(w, batch), ok |-> ipc_ok]

\* Mutant of FileShuffleWriter_write: a failed IPC write still counts the
\* batch.
FileShuffleWriter_write_counts_failed(w, batch, ipc_ok) ==
    [writer |-> IF ipc_ok THEN count_batch(w, batch)
                ELSE [w EXCEPT !.num_batches = @ + 1],
     ok |-> ipc_ok]

\* Mutant of LocalShuffleWriter_write: the send error is returned with `?`.
LocalShuffleWriter_write_propagates(w, batch, sent) ==
    [writer |-> IF sent THEN count_batch(w, batch) ELSE w, ok |-> sent]

\* The write methods give the sink after the call and whether the call
\* returned Ok.
\* FileShuffleWriter::write: self.writer.write(&batch)? comes first, so a
\* failed IPC write returns the error before any counter changes.
FileShuffleWriter_write(w, batch, ipc_ok) ==
    [writer |-> IF ipc_ok THEN count_batch(w, batch) ELSE w, ok |-> ipc_ok]

\* FlightShuffleWriter::write: the send result is discarded with .ok(), the
\* counters are updated and Ok(()) is returned.
FlightShuffleWriter_write(w, batch, sent) ==
    [writer |-> count_batch(w, batch), ok |-> TRUE]

\* LocalShuffleWriter::write: the send result is discarded with .ok(), the
\* counters are updated and Ok(()) is returned.
LocalShuffleWriter_write(w, batch, sent) ==
    [writer |-> count_batch(w, batch), ok |-> TRUE]

(* ------------------------------ channels ------------------------------- *)

SetMax(S) == CHOOSE x \in S : \A y \in S : y <= x

\* Indices of output partitions, executors and local senders.
OutIdx == 0 .. (SetMax(PartitionCounts \cup ListLens) - 1)

\* lost and failed_sends are history: the batches whose send failed or that
\* were still queued when the receiver was dropped, and the number of sends
\* that failed.
NoChan == [exists |-> FALSE, cap |-> 0, queue |-> <<>>, received |-> <<>>,
           rx_dropped |-> FALSE, tx_dropped |-> FALSE, lost |-> <<>>,
           failed_sends |-> 0]

\* tokio::sync::mpsc::channel(cap)
channel(cap) == [exists |-> TRUE, cap |-> cap, queue |-> <<>>,
                 received |-> <<>>, rx_dropped |-> FALSE, tx_dropped |-> FALSE,
                 lost |-> <<>>, failed_sends |-> 0]

\* Mutant of can_send: the channel is unbounded, a send never waits.
can_send_unbounded(ch) == TRUE

\* Mutant of can_send: a send to a channel whose receiver is gone stays
\* suspended.
can_send_open_only(ch) == ~ch.rx_dropped /\ Len(ch.queue) < ch.cap

\* Sender::send(..).await completes when the receiver is gone (with an error)
\* or when the channel has room; otherwise the sender stays suspended.
can_send(ch) == ch.rx_dropped \/ Len(ch.queue) < ch.cap

\* Whether a completed send delivered the value to the channel.
send_ok(ch) == ~ch.rx_dropped

\* The channel after a completed send.
send(ch, batch) ==
    IF ch.rx_dropped THEN [ch EXCEPT !.lost = Append(@, batch),
                                     !.failed_sends = @ + 1]
    ELSE [ch EXCEPT !.queue = Append(@, batch)]

\* Receiver::recv taking the oldest queued value.
recv(ch) == [ch EXCEPT !.queue = Tail(@), !.received = Append(@, Head(ch.queue))]

\* Dropping the receiver closes the channel and discards what is queued.
drop_receiver(ch) ==
    [ch EXCEPT !.rx_dropped = TRUE, !.queue = <<>>,
               !.lost = @ \o ch.queue]

\* Mutant of drop_senders: a clone of every sender outlives the invocation.
drop_senders_leaked(chs) == chs

\* Dropping the sender held by an invocation (sinks and local_senders are
\* dropped when execute_shuffle_write returns or unwinds).
drop_senders(chs) ==
    [p \in OutIdx |-> IF chs[p].exists THEN [chs[p] EXCEPT !.tx_dropped = TRUE]
                      ELSE chs[p]]

(* --------------------------- invocation state -------------------------- *)

Pending == [kind |-> "Pending", err |-> ""]

Ok == [kind |-> "Ok", err |-> ""]

Err(variant) == [kind |-> "Err", err |-> variant]

Panic == [kind |-> "Panic", err |-> "assert_eq"]

NoStats == [num_rows |-> 0, num_batches |-> 0, num_bytes |-> 0]

\* ShuffleWritePartition { partition_id, path, num_batches, num_rows, num_bytes }
ShuffleWritePartition(id, path, nb, nr, nby) ==
    [partition_id |-> id, path |-> path, num_batches |-> nb, num_rows |-> nr,
     num_bytes |-> nby]

\* What ExecutionPlan::execute has returned: nothing yet, or a stream of
\* metadata batches, or the error of execute_shuffle_write.
NoStream == [kind |-> "Pending", batches |-> <<>>]

\* The locals of one execute_shuffle_write(input_partition, local_senders).
\* input, stream_done, written and log are history: the batches the stream
\* has yielded, whether it has ended, the batches each sink's write returned
\* Ok for, and the sink calls (write, finish) in the order they were made.
\* opened is history too: the paths of the files the call has created.
\* limit is the number of batches the child's partition holds at most;
\* stream is the result of ExecutionPlan::execute when the call was made by
\* it.
NewCall(pc, senders) ==
    [pc |-> pc, local_senders |-> senders, input |-> <<>>, input_batch |-> <<>>,
     indices |-> [p \in OutIdx |-> <<>>], output_partition |-> 0,
     writers |-> [p \in OutIdx |-> NoWriter], fi |-> 0, part_locs |-> <<>>,
     stats |-> NoStats, result |-> Pending, stream_done |-> FALSE,
     written |-> [p \in OutIdx |-> <<>>],
     log |-> <<>>, limit |-> MaxBatches, stream |-> NoStream, opened |-> {}]

NoSenders == [some |-> FALSE, len |-> 0]

SomeSenders(len) == [some |-> TRUE, len |-> len]

SenderChoices == {NoSenders} \cup {SomeSenders(len) : len \in ListLens}

(* ------------------------- VarianceAccumulator ------------------------- *)

\* f64 values are exact fractions [num, den] in lowest terms, den > 0: the
\* arithmetic of the accumulator without its rounding.
RECURSIVE gcd(_, _)
gcd(a, b) == IF b = 0 THEN a ELSE gcd(b, a % b)

abs(x) == IF x < 0 THEN -x ELSE x

f64(num, den) ==
    LET g == gcd(abs(num), den) IN [num |-> num \div g, den |-> den \div g]

\* `n as f64`, ScalarValue::from(n)
from_u64(n) == f64(n, 1)

f64_add(x, y) == f64(x.num * y.den + y.num * x.den, x.den * y.den)

f64_sub(x, y) == f64(x.num * y.den - y.num * x.den, x.den * y.den)

f64_mul(x, y) == f64(x.num * y.num, x.den * y.den)

\* x / y for y # 0
f64_div(x, y) ==
    IF y.num > 0 THEN f64(x.num * y.den, x.den * y.num)
    ELSE f64(-(x.num * y.den), -(x.den * y.num))

\* Rounding of a positive a / d to Precision significant bits, to nearest,
\* ties to the even significand.
RECURSIVE round_abs(_, _)
round_abs(a, d) ==
    IF a >= (2 ^ Precision) * d THEN f64_mul(from_u64(2), round_abs(a, 2 * d))
    ELSE IF a < (2 ^ (Precision - 1)) * d
    THEN f64_div(round_abs(2 * a, d), from_u64(2))
    ELSE LET q == a \div d
             r == a % d
         IN  IF 2 * r > d \/ (2 * r = d /\ q % 2 = 1) THEN from_u64(q + 1)
             ELSE from_u64(q)

\* The double nearest to x.
round(x) ==
    IF x.num = 0 THEN x
    ELSE IF x.num > 0 THEN round_abs(x.num, x.den)
    ELSE f64_sub(from_u64(0), round_abs(-x.num, x.den))

\* -x (exact in doubles)
arithmetic_negate(x) == f64_sub(from_u64(0), x)

\* The arithmetic of doubles with its rounding.
f64_add_rounded(x, y) == round(f64_add(x, y))

f64_mul_rounded(x, y) == round(f64_mul(x, y))

f64_div_rounded(x, y) == round(f64_div(x, y))

StatsTypes == {"Population", "Sample"}

VarianceAccumulator_try_new(s_type) ==
    [m2 |-> from_u64(0), mean |-> from_u64(0), count |-> 0, stats_type |-> s_type]

\* Mutant of state: m2 comes before the mean.
state_m2_first(self) == [count |-> self.count, mean |-> self.m2, m2 |-> self.mean]

\* Accumulator::state: [count, mean, m2]
state(self) == [count |-> self.count, mean |-> self.mean, m2 |-> self.m2]

\* An array: its data type and its slots [valid, value], value being what
\* the values buffer holds at the slot, whether the slot is null or not.
Slot(valid, value) == [valid |-> valid, value |-> value]

\* cast(&values[0], &DataType::Float64): a Float64 array is returned as it
\* is; the slots of an Int32 array are converted, a null slot to a null
\* slot holding 0.
cast(arr) ==
    IF arr.data_type = "Float64"
    THEN [j \in 1..Len(arr.slots) |->
            Slot(arr.slots[j].valid, from_u64(arr.slots[j].value))]
    ELSE [j \in 1..Len(arr.slots) |->
            IF arr.slots[j].valid THEN Slot(TRUE, from_u64(arr.slots[j].value))
            ELSE Slot(FALSE, from_u64(0))]

\* Mutant of update_batch_step: m2 grows by the square of the distance to
\* the former mean.
update_batch_step_delta1(self, slot) ==
    LET value == slot.value IN
    IF value = from_u64(0) /\ ~slot.valid THEN self
    ELSE
        LET new_count == self.count + 1
            delta1 == f64_sub(value, self.mean)
            new_mean == f64_add(f64_div(delta1, from_u64(new_count)), self.mean)
            new_m2 == f64_add(self.m2, f64_mul(delta1, delta1))
        IN  [self EXCEPT !.count = @ + 1, !.mean = new_mean, !.m2 = new_m2]

\* One round of the loop of update_batch: slot i of the Float64 array.
update_batch_step(self, slot) ==
    LET value == slot.value IN
    IF value = from_u64(0) /\ ~slot.valid THEN self
    ELSE
        LET new_count == self.count + 1
            delta1 == f64_sub(value, self.mean)
            new_mean == f64_add(f64_div(delta1, from_u64(new_count)), self.mean)
            delta2 == f64_sub(value, new_mean)
            new_m2 == f64_add(self.m2, f64_mul(delta1, delta2))
        IN  [self EXCEPT !.count = @ + 1, !.mean = new_mean, !.m2 = new_m2]

RECURSIVE update_batch_loop(_, _)
update_batch_loop(self, arr) ==
    IF arr = <<>> THEN self
    ELSE update_batch_loop(update_batch_step(self, Head(arr)), Tail(arr))

VarianceAccumulator_update_batch(self, values) ==
    update_batch_loop(self, cast(values))

\* One round of the loop of merge_batch: state row i, in exact arithmetic or
\* with every operation rounded (x - y is x + (-y)).
merge_batch_round(exact, self, row) ==
    LET c == row.count
        add(x, y) == IF exact THEN f64_add(x, y) ELSE f64_add_rounded(x, y)
        mul(x, y) == IF exact THEN f64_mul(x, y) ELSE f64_mul_rounded(x, y)
        div(x, y) == IF exact THEN f64_div(x, y) ELSE f64_div_rounded(x, y)
    IN
    IF c = 0 THEN self
    ELSE
        LET new_count == self.count + c
            new_mean ==
                add(div(mul(self.mean, from_u64(self.count)), from_u64(new_count)),
                    div(mul(row.mean, from_u64(c)), from_u64(new_count)))
            delta == add(self.mean, arithmetic_negate(row.mean))
            new_m2 ==
                add(add(self.m2, row.m2),
                    div(mul(mul(mul(delta, delta), from_u64(self.count)),
                            from_u64(c)),
                        from_u64(new_count)))
        IN  [self EXCEPT !.count = new_count, !.mean = new_mean, !.m2 = new_m2]

\* Mutant of merge_batch_step: the term of the distance between the two
\* means is left out of m2.
merge_batch_step_within_only(self, row) ==
    IF row.count = 0 THEN self
    ELSE [merge_batch_round(TRUE, self, row) EXCEPT
              !.m2 = f64_add(self.m2, row.m2)]

merge_batch_step(self, row) ==
    merge_batch_round(TRUE, self, row)

merge_batch_step_rounded(self, row) ==
    merge_batch_round(FALSE, self, row)

RECURSIVE VarianceAccumulator_merge_batch_rounded(_, _)
VarianceAccumulator_merge_batch_rounded(self, states) ==
    IF states = <<>> THEN self
    ELSE VarianceAccumulator_merge_batch_rounded(
             merge_batch_step_rounded(self, Head(states)), Tail(states))

RECURSIVE VarianceAccumulator_merge_batch(_, _)
VarianceAccumulator_merge_batch(self, states) ==
    IF states = <<>> THEN self
    ELSE VarianceAccumulator_merge_batch(merge_batch_step(self, Head(states)),
                                         Tail(states))

\* The arithmetic of ScalarValue on numeric scalars: the operands are taken
\* as Float64 and the result is a Float64 scalar.
ScalarValue_add(lhs, rhs) == f64_add(lhs, rhs)

ScalarValue_mul(lhs, rhs) == f64_mul(lhs, rhs)

ScalarValue_div(lhs, rhs) == f64_div(lhs, rhs)

\* update(&[value]): a null scalar is skipped.
VarianceAccumulator_update(self, values) ==
    LET is_empty == ~values.valid
        mean == self.mean
        m2 == self.m2
    IN
    IF is_empty THEN self
    ELSE
        LET value == from_u64(values.value)
            new_count == self.count + 1
            delta1 == ScalarValue_add(value, arithmetic_negate(mean))
            new_mean == ScalarValue_add(
                            ScalarValue_div(delta1, from_u64(new_count)), mean)
            delta2 == ScalarValue_add(value, arithmetic_negate(new_mean))
            tmp == ScalarValue_mul(delta1, delta2)
            new_m2 == ScalarValue_add(m2, tmp)
        IN  [self EXCEPT !.count = @ + 1, !.mean = new_mean, !.m2 = new_m2]

\* The body of merge(&[count, mean, m2]), in exact arithmetic or with every
\* operation rounded.
merge_states(exact, self, states) ==
    LET count == states.count
        mean == states.mean
        m2 == states.m2
        add(x, y) == IF exact THEN ScalarValue_add(x, y) ELSE f64_add_rounded(x, y)
        mul(x, y) == IF exact THEN ScalarValue_mul(x, y) ELSE f64_mul_rounded(x, y)
        div(x, y) == IF exact THEN ScalarValue_div(x, y) ELSE f64_div_rounded(x, y)
    IN
    IF count = 0 THEN self
    ELSE IF self.count = 0
    THEN [self EXCEPT !.count = count, !.mean = mean, !.m2 = m2]
    ELSE
        LET new_count == self.count + count
            mean1 == self.mean
            mean2 == mean
            new_mean ==
                add(div(mul(mean1, from_u64(self.count)), from_u64(new_count)),
                    div(mul(mean2, from_u64(count)), from_u64(new_count)))
            delta == add(arithmetic_negate(mean2), mean1)
            delta_sqrt == mul(delta, delta)
            new_m2 ==
                add(add(mul(delta_sqrt,
                            div(mul(from_u64(self.count), from_u64(count)),
                                from_u64(new_count))),
                        self.m2),
                    m2)
        IN  [self EXCEPT !.count = new_count, !.mean = new_mean, !.m2 = new_m2]

\* Mutant of VarianceAccumulator_merge: the two means are averaged without
\* their counts.
VarianceAccumulator_merge_unweighted(self, states) ==
    IF states.count = 0 THEN self
    ELSE IF self.count = 0
    THEN [self EXCEPT !.count = states.count, !.mean = states.mean,
                      !.m2 = states.m2]
    ELSE [merge_batch_step(self, states) EXCEPT
              !.mean = f64_div(f64_add(self.mean, states.mean), from_u64(2))]

\* Mutant of VarianceAccumulator_merge: an empty accumulator takes the
\* incoming state before the state's count is looked at.
VarianceAccumulator_merge_copy_first(self, states) ==
    IF self.count = 0
    THEN [self EXCEPT !.count = states.count, !.mean = states.mean,
                      !.m2 = states.m2]
    ELSE merge_batch_step(self, states)

\* merge(&[count, mean, m2])
VarianceAccumulator_merge(self, states) ==
    merge_states(TRUE, self, states)

VarianceAccumulator_merge_rounded(self, states) ==
    merge_states(FALSE, self, states)

\* ScalarValue::Float64(None) and ScalarValue::Float64(Some(v))
Float64None == [some |-> FALSE, v |-> from_u64(0)]

Float64Some(v) == [some |-> TRUE, v |-> v]

NoValue == [kind |-> "Pending", err |-> "", value |-> Float64None]

OkValue(v) == [kind |-> "Ok", err |-> "", value |-> v]

ErrValue(variant) == [kind |-> "Err", err |-> variant, value |-> Float64None]

\* The divisor evaluate uses: count for Population, count - 1 (or 0) for
\* Sample.
divisor(self) ==
    IF self.stats_type = "Population" THEN self.count
    ELSE IF self.count > 0 THEN self.count - 1
    ELSE self.count

\* Mutant of VarianceAccumulator_evaluate: the empty accumulator is looked
\* at before the divisor.
VarianceAccumulator_evaluate_null_first(self) ==
    LET count == divisor(self) IN
    IF self.count = 0 THEN OkValue(Float64None)
    ELSE IF count <= 1 THEN ErrValue("Internal")
    ELSE OkValue(Float64Some(f64_div(self.m2, from_u64(count))))

VarianceAccumulator_evaluate(self) ==
    LET count == divisor(self) IN
    IF count <= 1 THEN ErrValue("Internal")
    ELSE IF self.count = 0 THEN OkValue(Float64None)
    ELSE OkValue(Float64Some(f64_div(self.m2, from_u64(count))))

\* The arrays, scalars and state rows the accumulator is called with.
SeqsOf(S, lens) == UNION {[1..len -> S] : len \in lens}

Slots ==
    {Slot(TRUE, v) : v \in Values \cup {0}}
        \cup {Slot(FALSE, v) : v \in NullSlotValues}

Arrays ==
    {[data_type |-> t, slots |-> q] :
        t \in {"Int32", "Float64"}, q \in SeqsOf(Slots, ArrayLens)}

Scalars == {Slot(TRUE, v) : v \in Values} \cup {Slot(FALSE, 0)}

\* State rows: the states of accumulators fed one or two values, the state
\* of a new accumulator, and a row of count 0 with other fields set.
StateRows ==
    {state(update_batch_loop(VarianceAccumulator_try_new("Sample"),
                             [j \in 1..Len(q) |-> Slot(TRUE, from_u64(q[j]))])) :
         q \in SeqsOf(Values, ArrayLens \cup {0})}
        \cup {[count |-> 0, mean |-> from_u64(5), m2 |-> from_u64(7)]}

StateLists == SeqsOf(StateRows, ArrayLens)

\* only_values: every call made on the accumulator so far was an
\* update_batch over an array without null slots; values are then the
\* elements of these arrays, in order.
NoneFed == [only_values |-> TRUE, values |-> <<>>]

NoCall == [op |-> "new", before |-> VarianceAccumulator_try_new("Population"),
           input |-> <<>>, result |-> NoValue]

PartitioningChoices ==
    {[kind |-> "None", n |-> 0], [kind |-> "RoundRobinBatch", n |-> 1]}
        \cup {[kind |-> "Hash", n |-> n] : n \in PartitionCounts}

OutputLocChoices ==
    {[kind |-> "LocalDir", len |-> 0]}
        \cup {[kind |-> "Executors", len |-> len] : len \in ListLens}

\* The channels behind the local senders handed to an invocation.
LocalChans(senders) ==
    [p \in OutIdx |-> IF senders.some /\ p < senders.len THEN channel(LocalCap)
                      ELSE NoChan]

InitNode ==
    /\ shuffle_output_partitioning \in PartitioningChoices
    /\ output_loc \in OutputLocChoices
    /\ metrics = [i \in Inputs |-> [input_rows |-> 0, output_rows |-> 0]]
    /\ dirs = {}
    /\ files = [path \in {} |-> 0]
    /\ remote = [key \in {} |-> 0]
    /\ accumulator = VarianceAccumulator_try_new("Population")
    /\ last = NoCall
    /\ fed = NoneFed

\* The invocations of execute_shuffle_write made on the node.
Invocations == DOMAIN call

\* One invocation, with any local_senders argument.
Init ==
    /\ InitNode
    /\ \E senders \in SenderChoices :
        /\ call = [i \in Invoked |-> NewCall("start", senders)]
        /\ chan = [i \in Invoked |-> LocalChans(senders)]
    /\ task = [i \in Invoked |-> [p \in OutIdx |-> "none"]]

(* ----------------------- execute_shuffle_write ------------------------- *)

\* Mutant of Fail: the sink of output partition 0 is finished on the way
\* out.
Fail_finishing(c, variant) ==
    [c EXCEPT !.pc = "done", !.result = Err(variant),
              !.log = Append(@, [op |-> "finish", batch |-> MaxBatches, p |-> 0])]

Fail(c, variant) == [c EXCEPT !.pc = "done", !.result = Err(variant)]

Abort(c) == [c EXCEPT !.pc = "done", !.result = Panic]

\* Mutant of Commit: a call that ends with an error sends an error item on
\* every channel before its senders are dropped.
Commit_sending_error(i, c2, chs) ==
    /\ call' = [call EXCEPT ![i] = c2]
    /\ chan' = [chan EXCEPT ![i] =
                  IF c2.pc # "done" THEN chs
                  ELSE IF c2.result.kind # "Err" THEN drop_senders(chs)
                  ELSE drop_senders([p \in OutIdx |->
                           IF chs[p].exists
                           THEN send(chs[p], <<Row(0, MaxBatches, 0)>>)
                           ELSE chs[p]])]

\* The invocation's next locals and channels; when the call ends its
\* senders (the sinks and local_senders) are dropped.
Commit(i, c2, chs) ==
    /\ call' = [call EXCEPT ![i] = c2]
    /\ chan' = [chan EXCEPT ![i] = IF c2.pc = "done" THEN drop_senders(chs)
                                   ELSE chs]

num_output_partitions == shuffle_output_partitioning.n

\* let mut stream = self.plan.execute(input_partition).await?;
ExecuteChild(i) ==
    LET c == call[i] IN
    /\ c.pc = "start"
    /\ \E plan_ok \in BOOLEAN :
        Commit(i, IF plan_ok THEN [c EXCEPT !.pc = "match"]
                  ELSE Fail(c, "child plan"), chan[i])
    /\ UNCHANGED <<node, variance, metrics, dirs, files, remote, task>>

\* Mutant of new_writers: a sink is created for every output partition
\* before the stream is read.
eager_writers ==
    [p \in OutIdx |-> IF p < shuffle_output_partitioning.n
                      THEN LocalShuffleWriter_new ELSE NoWriter]

\* let mut writers = vec![]; for _ in 0..n { writers.push(None) }
new_writers == [p \in OutIdx |-> NoWriter]

\* Some(Partitioning::Hash(exprs, n)) => the writers are created on demand.
StartHash(i) ==
    LET c == call[i] IN
    /\ c.pc = "match"
    /\ shuffle_output_partitioning.kind = "Hash"
    /\ Commit(i, [c EXCEPT !.pc = "pull", !.writers = new_writers], chan[i])
    /\ UNCHANGED <<node, variance, metrics, dirs, files, remote, task>>

\* Mutant of invalid_partitioning: the error is a Plan error.
invalid_partitioning_as_plan(c) == Fail(c, "Plan")

\* Err(DataFusionError::Execution("Invalid shuffle partitioning scheme"))
invalid_partitioning(c) == Fail(c, "Execution")

\* The `_` arm of the match on the partitioning.
StartInvalid(i) ==
    LET c == call[i] IN
    /\ c.pc = "match"
    /\ shuffle_output_partitioning.kind \notin {"None", "Hash"}
    /\ Commit(i, invalid_partitioning(c), chan[i])
    /\ UNCHANGED <<node, variance, metrics, dirs, files, remote, task>>

\* What stream.next().await can yield after the batches in c.input.
StreamItems(c) ==
    {[kind |-> "None", batch |-> <<>>], [kind |-> "Err", batch |-> <<>>]}
        \cup (IF Len(c.input) < c.limit
              THEN {[kind |-> "Batch", batch |-> b] : b \in BatchesAt(Len(c.input))}
              ELSE {})

\* One turn of `while let Some(result) = stream.next().await` up to the loop
\* over the output partitions: input_rows, key expressions, hashes, indices.
Pull(i) ==
    LET c == call[i] IN
    /\ c.pc = "pull"
    /\ \E item \in StreamItems(c), keys_ok \in BOOLEAN :
        /\ item.kind # "Batch" => keys_ok
        /\ IF item.kind = "None" THEN
              /\ Commit(i, [c EXCEPT !.pc = "finish", !.fi = 0,
                                     !.stream_done = TRUE], chan[i])
              /\ UNCHANGED metrics
           ELSE IF item.kind = "Err" THEN
              /\ Commit(i, Fail(c, "ArrowError"), chan[i])
              /\ UNCHANGED metrics
           ELSE
              LET input_batch == item.batch
                  got == [c EXCEPT !.input = Append(@, input_batch),
                                   !.input_batch = input_batch]
                  hashes == create_hashes(evaluate(input_batch))
                  indices == build_indices(hashes, num_output_partitions)
              IN
              /\ metrics' = [metrics EXCEPT ![i].input_rows =
                                @ + num_rows_of(input_batch)]
              /\ Commit(i, IF keys_ok
                           THEN [got EXCEPT
                                   !.indices = [p \in OutIdx |->
                                       IF p < num_output_partitions
                                       THEN indices[p] ELSE <<>>],
                                   !.output_partition = 0,
                                   !.pc = "write"]
                           ELSE Fail(got, "key expression"), chan[i])
    /\ UNCHANGED <<node, variance, dirs, files, remote, task>>

\* The batch of the current output partition: take on every input column.
output_batch(c) == take(c.input_batch, c.indices[c.output_partition])

\* take(c.as_ref(), &indices, None) fails: mapped to an Execution error.
TakeFails(i) ==
    LET c == call[i] IN
    /\ c.pc = "write"
    /\ Commit(i, Fail(c, "Execution"), chan[i])
    /\ UNCHANGED <<node, variance, metrics, dirs, files, remote, task>>

WriteCall(k, p) == [op |-> "write", batch |-> k, p |-> p]

FinishCall(p) == [op |-> "finish", batch |-> MaxBatches, p |-> p]

\* Mutant of after_write: an output batch without rows is not written and
\* leaves no sink (the guard `if output_batch.num_rows() > 0`).
after_write_nonempty(c, p, batch, w) ==
    IF batch = <<>>
    THEN [c EXCEPT !.output_partition = p + 1,
                   !.pc = IF p + 1 = num_output_partitions THEN "pull"
                          ELSE "write"]
    ELSE [c EXCEPT !.writers[p] = w,
                   !.written[p] = Append(@, batch),
                   !.log = Append(@, WriteCall(Len(c.input) - 1, p)),
                   !.output_partition = p + 1,
                   !.pc = IF p + 1 = num_output_partitions THEN "pull"
                          ELSE "write"]

\* The locals after the write of `batch` to output partition p returned Ok:
\* the sink, then on to the next output partition or the next input batch.
after_write(c, p, batch, w) ==
    [c EXCEPT !.writers[p] = w,
              !.written[p] = Append(@, batch),
              !.log = Append(@, WriteCall(Len(c.input) - 1, p)),
              !.output_partition = p + 1,
              !.pc = IF p + 1 = num_output_partitions THEN "pull" ELSE "write"]

\* Mutant of add_output_rows: the counter of input partition 0 is used by
\* every invocation.
add_output_rows_shared(i, batch) ==
    metrics' = [metrics EXCEPT ![0].output_rows = @ + num_rows_of(batch)]

\* write_metrics.output_rows.add(num_rows)
add_output_rows(i, batch) ==
    metrics' = [metrics EXCEPT ![i].output_rows = @ + num_rows_of(batch)]

new_file == [batches |-> <<>>, finished |-> FALSE]

\* FileWriter::write appends the batch to the IPC file.
ipc_write(fs, path, batch) ==
    [fs EXCEPT ![path].batches = Append(@, batch)]

\* `w.write(output_batch).await?` on the sink in writers[p]: on Ok the
\* loop goes on, on Err the call returns the error (the sink stays as the
\* failed write left it until it is dropped).
write_existing(c, p, batch, r, variant) ==
    IF r.ok THEN after_write(c, p, batch, r.writer)
    ELSE Fail([c EXCEPT !.writers[p] = r.writer], variant)

\* `writer.write(output_batch)?; writers[p] = Some(writer)` on a new sink:
\* on Err the sink is dropped before it is stored.
write_new(c, p, batch, r, variant) ==
    IF r.ok THEN after_write(c, p, batch, r.writer) ELSE Fail(c, variant)

\* Mutant of sink_variant: with Executors the sink is a Flight sink even
\* when local senders are supplied.
sink_variant_flight_always(loc, senders) ==
    IF loc.kind = "LocalDir" THEN "File" ELSE "Flight"

\* `match &self.output_loc`, then `match &local_senders`: the variant of a
\* sink that is created.
sink_variant(loc, senders) ==
    IF loc.kind = "LocalDir" THEN "File"
    ELSE IF senders.some THEN "Local"
    ELSE "Flight"

\* The output partition's arm for a File sink: write to the sink there is,
\* or create the directory, the file and the sink, and write.
WriteFile(i) ==
    LET c == call[i]
        p == c.output_partition
        w == c.writers[p]
        batch == output_batch(c)
        dir == partition_dir(p)
        path == shuffle_file_path(p, i)
    IN
    /\ c.pc = "write"
    /\ \/ w.kind = "File"
       \/ w.kind = "None"
          /\ sink_variant(output_loc, c.local_senders) = "File"
    /\ \E outcome \in {"ok", "create_dir_all", "File::create", "ipc"} :
        LET ipc_ok == outcome = "ok" IN
        IF w.kind = "File" THEN
            /\ outcome \in {"ok", "ipc"}
            /\ files' = IF ipc_ok THEN ipc_write(files, w.path, batch) ELSE files
            /\ Commit(i, write_existing(c, p, batch,
                            FileShuffleWriter_write(w, batch, ipc_ok),
                            "ArrowError"), chan[i])
            /\ IF ipc_ok THEN add_output_rows(i, batch) ELSE UNCHANGED metrics
            /\ UNCHANGED dirs
        ELSE IF outcome = "create_dir_all" THEN
            /\ Commit(i, Fail(c, "IoError"), chan[i])
            /\ UNCHANGED <<files, metrics, dirs>>
        ELSE IF outcome = "File::create" THEN
            /\ dirs' = dirs \cup {dir}
            /\ Commit(i, Fail(c, "Execution"), chan[i])
            /\ UNCHANGED <<files, metrics>>
        ELSE
            /\ dirs' = dirs \cup {dir}
            /\ files' = IF ipc_ok
                        THEN ipc_write((path :> new_file) @@ files, path, batch)
                        ELSE (path :> new_file) @@ files
            /\ Commit(i, [write_new(c, p, batch,
                             FileShuffleWriter_write(FileShuffleWriter_new(path),
                                                     batch, ipc_ok),
                             "ArrowError") EXCEPT !.opened = @ \cup {path}],
                      chan[i])
            /\ IF ipc_ok THEN add_output_rows(i, batch) ELSE UNCHANGED metrics
    /\ UNCHANGED <<node, variance, remote, task>>

\* The output partition's arm for a Local sink: the two assertions and
\* LocalShuffleWriter::new for a new sink, then write.
WriteLocal(i) ==
    LET c == call[i]
        p == c.output_partition
        w == c.writers[p]
        batch == output_batch(c)
        ch == chan[i][p]
    IN
    /\ c.pc \in {"write", "send"}
    /\ \/ w.kind = "Local"
       \/ w.kind = "None"
          /\ sink_variant(output_loc, c.local_senders) = "Local"
    /\ IF w.kind = "None" /\ (output_loc.len # num_output_partitions
                               \/ c.local_senders.len # num_output_partitions)
       THEN /\ Commit(i, Abort(c), chan[i])
            /\ UNCHANGED metrics
       ELSE LET r == LocalShuffleWriter_write(
                         IF w.kind = "None" THEN LocalShuffleWriter_new ELSE w,
                         batch, send_ok(ch))
            IN
            /\ can_send(ch)
            /\ Commit(i, IF w.kind = "None"
                         THEN write_new(c, p, batch, r, "SendError")
                         ELSE write_existing(c, p, batch, r, "SendError"),
                      [chan[i] EXCEPT ![p] = send(ch, batch)])
            /\ IF r.ok THEN add_output_rows(i, batch) ELSE UNCHANGED metrics
    /\ UNCHANGED <<node, variance, dirs, files, remote, task>>

\* The output partition's arm for a Flight sink: the assertion and
\* FlightShuffleWriter::new (channel(2), the spawned push task) for a new
\* sink, then write.
WriteFlight(i) ==
    LET c == call[i]
        p == c.output_partition
        w == c.writers[p]
        batch == output_batch(c)
        ch == IF w.kind = "None" THEN channel(FlightChannelCap) ELSE chan[i][p]
    IN
    /\ c.pc \in {"write", "send"}
    /\ \/ w.kind = "Flight"
       \/ w.kind = "None"
          /\ sink_variant(output_loc, c.local_senders) = "Flight"
    /\ IF w.kind = "None" /\ output_loc.len # num_output_partitions
       THEN /\ Commit(i, Abort(c), chan[i])
            /\ UNCHANGED <<metrics, task>>
       ELSE LET r == FlightShuffleWriter_write(
                         IF w.kind = "None" THEN FlightShuffleWriter_new ELSE w,
                         batch, send_ok(ch))
            IN
            /\ can_send(ch)
            /\ task' = IF w.kind = "None"
                       THEN [task EXCEPT ![i][p] = "connecting"] ELSE task
            /\ Commit(i, IF w.kind = "None"
                         THEN write_new(c, p, batch, r, "SendError")
                         ELSE write_existing(c, p, batch, r, "SendError"),
                      [chan[i] EXCEPT ![p] = send(ch, batch)])
            /\ IF r.ok THEN add_output_rows(i, batch) ELSE UNCHANGED metrics
    /\ UNCHANGED <<node, variance, dirs, files, remote>>

\* Mutant of Suspend: while the send is suspended the loop moves on to the
\* next output partition.
Suspend_moving_on(i) ==
    LET c == call[i]
        p == c.output_partition
    IN
    /\ c.pc = "write"
    /\ c.writers[p].kind \in {"Local", "Flight"}
    /\ ~can_send(chan[i][p])
    /\ Commit(i, [c EXCEPT !.pc = "send",
                            !.output_partition = (p + 1) % num_output_partitions],
              chan[i])
    /\ UNCHANGED <<node, variance, metrics, dirs, files, remote, task>>

\* `w.write(output_batch).await` on a Local or Flight sink whose channel is
\* full: the output batch has been taken and the future is suspended in
\* Sender::send until the channel has room or its receiver is dropped.
Suspend(i) ==
    LET c == call[i]
        p == c.output_partition
    IN
    /\ c.pc = "write"
    /\ c.writers[p].kind \in {"Local", "Flight"}
    /\ ~can_send(chan[i][p])
    /\ Commit(i, [c EXCEPT !.pc = "send"], chan[i])
    /\ UNCHANGED <<node, variance, metrics, dirs, files, remote, task>>

\* The locals once w.finish() has been called on the sink of partition p.
finish_called(c, p) == [c EXCEPT !.log = Append(@, FinishCall(p))]

\* Mutant of finish_sink: the record is pushed without finishing the sink.
finish_sink_skipped(c, p, w) ==
    [c EXCEPT
        !.fi = p + 1,
        !.part_locs = Append(@, ShuffleWritePartition(p, w.path, w.num_batches,
                                                      w.num_rows, w.num_bytes))]

\* Some(w) => { w.finish()?; part_locs.push(ShuffleWritePartition { .. }) }
finish_sink(c, p, w) ==
    [finish_called(c, p) EXCEPT
        !.fi = p + 1,
        !.part_locs = Append(@, ShuffleWritePartition(p, w.path, w.num_batches,
                                                      w.num_rows, w.num_bytes))]

\* One turn of `for (i, w) in writers.iter_mut().enumerate()`: finish the
\* sink and push its ShuffleWritePartition record.
FinishSink(i) ==
    LET c == call[i]
        p == c.fi
        w == c.writers[p]
    IN
    /\ c.pc = "finish"
    /\ p < num_output_partitions
    /\ \E finish_ok \in BOOLEAN :
        /\ w.kind # "File" => finish_ok
        /\ IF w.kind = "None" THEN
              /\ Commit(i, [c EXCEPT !.fi = p + 1], chan[i])
              /\ UNCHANGED files
           ELSE IF ~finish_ok THEN
              /\ Commit(i, Fail(finish_called(c, p), "ArrowError"), chan[i])
              /\ UNCHANGED files
           ELSE
              /\ files' = IF w.kind = "File"
                          THEN [files EXCEPT ![w.path].finished = TRUE]
                          ELSE files
              /\ Commit(i, finish_sink(c, p, w), chan[i])
    /\ UNCHANGED <<node, variance, metrics, dirs, remote, task>>

\* Ok(part_locs)
ReturnHash(i) ==
    LET c == call[i] IN
    /\ c.pc = "finish"
    /\ c.fi = num_output_partitions
    /\ Commit(i, [c EXCEPT !.pc = "done", !.result = Ok], chan[i])
    /\ UNCHANGED <<node, variance, metrics, dirs, files, remote, task>>

(* ----------------------------- pass-through ---------------------------- *)

add_stats(stats, batch) ==
    [num_rows |-> stats.num_rows + num_rows_of(batch),
     num_batches |-> stats.num_batches + 1,
     num_bytes |-> stats.num_bytes + batch_size_bytes(batch)]

\* None => LocalDir: create <work_dir>/<job_id>/<stage_id>/<input_partition>/
StartPassLocalDir(i) ==
    LET c == call[i] IN
    /\ c.pc = "match"
    /\ shuffle_output_partitioning.kind = "None"
    /\ output_loc.kind = "LocalDir"
    /\ \E dir_ok \in BOOLEAN :
        IF dir_ok THEN /\ dirs' = dirs \cup {partition_dir(i)}
                       /\ Commit(i, [c EXCEPT !.pc = "pt_disk_open"], chan[i])
        ELSE /\ Commit(i, Fail(c, "IoError"), chan[i])
             /\ UNCHANGED dirs
    /\ UNCHANGED <<node, variance, metrics, files, remote, task>>

\* utils::write_stream_to_disk: create the IPC file at the path.
WriteStreamToDiskOpen(i) ==
    LET c == call[i] IN
    /\ c.pc = "pt_disk_open"
    /\ \E create_ok \in BOOLEAN :
        IF create_ok
        THEN /\ files' = (passthrough_file_path(i) :> new_file) @@ files
             /\ Commit(i, [c EXCEPT !.pc = "pt_disk",
                                    !.opened = @ \cup {passthrough_file_path(i)}],
                       chan[i])
        ELSE /\ Commit(i, Fail(c, "Execution"), chan[i])
             /\ UNCHANGED files
    /\ UNCHANGED <<node, variance, metrics, dirs, remote, task>>

\* utils::write_stream_to_disk: write every batch of the stream to the file,
\* close it and return the statistics; any error is returned (and mapped to
\* an Execution error by the caller).
WriteStreamToDiskStep(i) ==
    LET c == call[i]
        path == passthrough_file_path(i)
    IN
    /\ c.pc = "pt_disk"
    /\ \E item \in StreamItems(c), io_ok \in BOOLEAN :
        /\ item.kind = "Err" => io_ok
        /\ IF item.kind = "Err" \/ ~io_ok THEN
              /\ Commit(i, Fail(c, "Execution"), chan[i])
              /\ UNCHANGED files
           ELSE IF item.kind = "None" THEN
              /\ files' = [files EXCEPT ![path].finished = TRUE]
              /\ Commit(i, [c EXCEPT !.pc = "pt_return", !.stream_done = TRUE], chan[i])
           ELSE
              /\ files' = ipc_write(files, path, item.batch)
              /\ Commit(i, [c EXCEPT !.input = Append(@, item.batch),
                                     !.written[0] = Append(@, item.batch),
                                     !.stats = add_stats(@, item.batch)],
                        chan[i])
    /\ UNCHANGED <<node, variance, metrics, dirs, remote, task>>

\* None => Executors(execs): the two assertions and the choice between the
\* local sender and the remote push.
StartPassExecutors(i) ==
    LET c == call[i] IN
    /\ c.pc = "match"
    /\ shuffle_output_partitioning.kind = "None"
    /\ output_loc.kind = "Executors"
    /\ Commit(i, IF output_loc.len # 1 THEN Abort(c)
                 ELSE IF ~c.local_senders.some THEN [c EXCEPT !.pc = "pt_flight"]
                 ELSE IF c.local_senders.len # 1 THEN Abort(c)
                 ELSE [c EXCEPT !.pc = "pt_local"], chan[i])
    /\ UNCHANGED <<node, variance, metrics, dirs, files, remote, task>>

\* while let Some(result) = stream.next().await { let batch = result?; ...
\* the three counters are updated before the batch is sent.
PassLocalPull(i) ==
    LET c == call[i] IN
    /\ c.pc = "pt_local"
    /\ \E item \in StreamItems(c) :
        Commit(i, IF item.kind = "None" THEN [c EXCEPT !.pc = "pt_return", !.stream_done = TRUE]
                  ELSE IF item.kind = "Err" THEN Fail(c, "ArrowError")
                  ELSE [c EXCEPT !.input = Append(@, item.batch),
                                 !.input_batch = item.batch,
                                 !.stats = add_stats(@, item.batch),
                                 !.pc = "pt_send"], chan[i])
    /\ UNCHANGED <<node, variance, metrics, dirs, files, remote, task>>

\* senders[0].send(Ok(batch)).await.ok();
PassLocalSend(i) ==
    LET c == call[i]
        ch == chan[i][0]
    IN
    /\ c.pc = "pt_send"
    /\ can_send(ch)
    /\ Commit(i, [c EXCEPT !.written[0] = Append(@, c.input_batch),
                           !.pc = "pt_local"],
              [chan[i] EXCEPT ![0] = send(ch, c.input_batch)])
    /\ UNCHANGED <<node, variance, metrics, dirs, files, remote, task>>

\* The key of a pushed partition at an executor: executor, partition id.
push_key(executor, partition_id) == <<executor, partition_id>>

\* The executor's store after push_partition delivered one more batch.
push_batch(store, key, batch) ==
    IF key \in DOMAIN store THEN [store EXCEPT ![key] = Append(@, batch)]
    ELSE (key :> <<batch>>) @@ store

\* Mutant of pushed_partition_id: the push is keyed by the input partition.
pushed_partition_id_input(input_partition) == input_partition

\* The partition id handed to write_stream_to_flight: the literal 0.
pushed_partition_id(input_partition) == 0

\* utils::write_stream_to_flight(stream, host, port, job_id, stage_id, 0, ..):
\* push the stream to execs[0] under partition 0 and return the statistics,
\* or the error of the stream or of the push.
WriteStreamToFlightStep(i) ==
    LET c == call[i] IN
    /\ c.pc = "pt_flight"
    /\ \E item \in StreamItems(c), push_ok \in BOOLEAN :
        /\ item.kind = "Err" => push_ok
        /\ IF item.kind = "Err" \/ ~push_ok THEN
              /\ Commit(i, Fail(c, "Execution"), chan[i])
              /\ UNCHANGED remote
           ELSE IF item.kind = "None" THEN
              /\ Commit(i, [c EXCEPT !.pc = "pt_return", !.stream_done = TRUE], chan[i])
              /\ UNCHANGED remote
           ELSE
              /\ remote' = push_batch(remote, push_key(0, pushed_partition_id(i)),
                                      item.batch)
              /\ Commit(i, [c EXCEPT !.input = Append(@, item.batch),
                                     !.written[0] = Append(@, item.batch),
                                     !.stats = add_stats(@, item.batch)],
                        chan[i])
    /\ UNCHANGED <<node, variance, metrics, dirs, files, task>>

\* Mutant of pass_record: the record carries the push key's partition 0.
pass_record_zero(input_partition, path, stats) ==
    <<ShuffleWritePartition(0, path, stats.num_batches, stats.num_rows,
                            stats.num_bytes)>>

\* vec![ShuffleWritePartition { partition_id: input_partition as u64, .. }]
pass_record(input_partition, path, stats) ==
    <<ShuffleWritePartition(input_partition, path, stats.num_batches,
                            stats.num_rows, stats.num_bytes)>>

\* input_rows and output_rows get stats.num_rows, and the single record is
\* returned.
PassReturn(i) ==
    LET c == call[i]
        path == IF output_loc.kind = "LocalDir" THEN passthrough_file_path(i)
                ELSE ""
    IN
    /\ c.pc = "pt_return"
    /\ metrics' = [metrics EXCEPT ![i].input_rows = @ + c.stats.num_rows,
                                  ![i].output_rows = @ + c.stats.num_rows]
    /\ Commit(i, [c EXCEPT !.pc = "done", !.result = Ok,
                           !.part_locs = pass_record(i, path, c.stats)],
              chan[i])
    /\ UNCHANGED <<node, variance, dirs, files, remote, task>>

(* ------------------------ consumers of the channels -------------------- *)

\* The in-process consumer behind a local sender receives a batch.
LocalRecv(i, p) ==
    /\ chan[i][p].exists
    /\ task[i][p] = "none"
    /\ chan[i][p].queue # <<>>
    /\ chan' = [chan EXCEPT ![i][p] = recv(@)]
    /\ UNCHANGED <<node, variance, metrics, dirs, files, remote, task, call>>

\* The in-process consumer drops its receiver.
LocalDropReceiver(i, p) ==
    /\ chan[i][p].exists
    /\ task[i][p] = "none"
    /\ ~chan[i][p].rx_dropped
    /\ chan' = [chan EXCEPT ![i][p] = drop_receiver(@)]
    /\ UNCHANGED <<node, variance, metrics, dirs, files, remote, task, call>>

\* The spawned task: BallistaClient::try_new(host, port).await; on an error
\* the task returns it and its stream (the receiver) is dropped.
PushConnect(i, p) ==
    /\ task[i][p] = "connecting"
    /\ \E connect_ok \in BOOLEAN :
        IF connect_ok
        THEN /\ task' = [task EXCEPT ![i][p] = "pushing"]
             /\ UNCHANGED chan
        ELSE /\ task' = [task EXCEPT ![i][p] = "failed"]
             /\ chan' = [chan EXCEPT ![i][p] = drop_receiver(@)]
    /\ UNCHANGED <<node, variance, metrics, dirs, files, remote, call>>

\* push_partition(job_id, stage_id, partition_id, stream) takes the next
\* batch of the stream and delivers it to executor execs[p].
PushRecv(i, p) ==
    /\ task[i][p] = "pushing"
    /\ chan[i][p].queue # <<>>
    /\ remote' = push_batch(remote, push_key(p, p), Head(chan[i][p].queue))
    /\ chan' = [chan EXCEPT ![i][p] = recv(@)]
    /\ UNCHANGED <<node, variance, metrics, dirs, files, task, call>>

\* push_partition fails: the task returns the error to its JoinHandle, which
\* nobody holds, and the stream is dropped.
PushFail(i, p) ==
    /\ task[i][p] = "pushing"
    /\ task' = [task EXCEPT ![i][p] = "failed"]
    /\ chan' = [chan EXCEPT ![i][p] = drop_receiver(@)]
    /\ UNCHANGED <<node, variance, metrics, dirs, files, remote, call>>

\* The stream ends once the sender is dropped and the queue is drained;
\* push_partition returns the statistics.
PushEnd(i, p) ==
    /\ task[i][p] = "pushing"
    /\ chan[i][p].tx_dropped
    /\ chan[i][p].queue = <<>>
    /\ task' = [task EXCEPT ![i][p] = "done"]
    /\ UNCHANGED <<node, variance, metrics, dirs, files, remote, chan, call>>

(* ---------------------------- specification ---------------------------- *)

Next ==
    \/ \E i \in Invocations :
        \/ ExecuteChild(i)
        \/ StartHash(i)
        \/ StartInvalid(i)
        \/ Pull(i)
        \/ TakeFails(i)
        \/ WriteFile(i)
        \/ WriteLocal(i)
        \/ WriteFlight(i)
        \/ Suspend(i)
        \/ FinishSink(i)
        \/ ReturnHash(i)
        \/ StartPassLocalDir(i)
        \/ WriteStreamToDiskOpen(i)
        \/ WriteStreamToDiskStep(i)
        \/ StartPassExecutors(i)
        \/ PassLocalPull(i)
        \/ PassLocalSend(i)
        \/ WriteStreamToFlightStep(i)
        \/ PassReturn(i)
    \/ \E i \in Invocations, p \in OutIdx :
        \/ LocalRecv(i, p)
        \/ LocalDropReceiver(i, p)
        \/ PushConnect(i, p)
        \/ PushRecv(i, p)
        \/ PushFail(i, p)
        \/ PushEnd(i, p)

Spec == Init /\ [][Next]_vars

\* Hash partitioning to remote executors through Flight sinks, over input
\* streams long enough to fill a sink's channel.
InitFlight ==
    /\ InitNode
    /\ shuffle_output_partitioning.kind = "Hash"
    /\ output_loc.kind = "Executors"
    /\ output_loc.len = shuffle_output_partitioning.n
    /\ call = [i \in Invoked |->
                 [NewCall("start", NoSenders) EXCEPT !.limit = LongStream]]
    /\ chan = [i \in Invoked |-> LocalChans(NoSenders)]
    /\ task = [i \in Invoked |-> [p \in OutIdx |-> "none"]]

NextFlight ==
    \/ \E i \in Invocations :
        \/ ExecuteChild(i)
        \/ StartHash(i)
        \/ Pull(i)
        \/ TakeFails(i)
        \/ WriteFlight(i)
        \/ Suspend(i)
        \/ FinishSink(i)
        \/ ReturnHash(i)
    \/ \E i \in Invocations, p \in OutIdx :
        \/ PushConnect(i, p)
        \/ PushRecv(i, p)
        \/ PushFail(i, p)
        \/ PushEnd(i, p)

SpecFlight == InitFlight /\ [][NextFlight]_vars

Cancelled == [kind |-> "Cancelled", err |-> ""]

\* The future of execute_shuffle_write is dropped at an await point: its
\* locals (the stream, the sinks with their senders) are dropped.
Cancel(i) ==
    LET c == call[i] IN
    /\ c.pc # "done"
    /\ Commit(i, [c EXCEPT !.pc = "done", !.result = Cancelled], chan[i])
    /\ UNCHANGED <<node, variance, metrics, dirs, files, remote, task>>

\* Hash partitioning to remote executors through Flight sinks.
InitPush ==
    /\ InitNode
    /\ shuffle_output_partitioning.kind = "Hash"
    /\ output_loc.kind = "Executors"
    /\ output_loc.len = shuffle_output_partitioning.n
    /\ call = [i \in Invoked |-> NewCall("start", NoSenders)]
    /\ chan = [i \in Invoked |-> LocalChans(NoSenders)]
    /\ task = [i \in Invoked |-> [p \in OutIdx |-> "none"]]

NextPush ==
    \/ \E i \in Invocations :
        \/ ExecuteChild(i)
        \/ StartHash(i)
        \/ Pull(i)
        \/ TakeFails(i)
        \/ WriteFlight(i)
        \/ FinishSink(i)
        \/ ReturnHash(i)
        \/ Cancel(i)
    \/ \E i \in Invocations, p \in OutIdx :
        \/ PushConnect(i, p)
        \/ PushRecv(i, p)
        \/ PushFail(i, p)
        \/ PushEnd(i, p)

\* The runtime keeps polling a spawned push task, and each of its awaits
\* (connect, next batch of the stream, end of the push) returns.
PushFairness ==
    \A i \in Invoked : \A p \in OutIdx :
        /\ WF_vars(PushConnect(i, p))
        /\ WF_vars(PushRecv(i, p))
        /\ WF_vars(PushEnd(i, p))

SpecPush == InitPush /\ [][NextPush]_vars /\ PushFairness

(* ------------------- hash repartition to completion ------------------- *)

\* Hash partitioning with sinks of every variant, over input streams long
\* enough to fill the channel of a Local or a Flight sink; the node with
\* Flight sinks has one output partition.
InitFair ==
    /\ InitNode
    /\ shuffle_output_partitioning.kind = "Hash"
    /\ output_loc.kind = "Executors" =>
          output_loc.len = shuffle_output_partitioning.n
    /\ \E senders \in {NoSenders, SomeSenders(shuffle_output_partitioning.n)} :
        /\ sink_variant(output_loc, senders) = "Flight" =>
              shuffle_output_partitioning.n = 1
        /\ call = [i \in Invoked |->
                     [NewCall("start", senders) EXCEPT
                         !.limit = IF sink_variant(output_loc, senders) = "Flight"
                                   THEN LongStream ELSE MaxBatches]]
        /\ chan = [i \in Invoked |-> LocalChans(senders)]
    /\ task = [i \in Invoked |-> [p \in OutIdx |-> "none"]]

\* A step of the future of execute_shuffle_write in hash mode.
HashStep(i) ==
    \/ ExecuteChild(i)
    \/ StartHash(i)
    \/ Pull(i)
    \/ TakeFails(i)
    \/ WriteFile(i)
    \/ WriteLocal(i)
    \/ WriteFlight(i)
    \/ Suspend(i)
    \/ FinishSink(i)
    \/ ReturnHash(i)

NextFair ==
    \/ \E i \in Invocations :
        \/ ExecuteChild(i)
        \/ StartHash(i)
        \/ Pull(i)
        \/ TakeFails(i)
        \/ WriteFile(i)
        \/ WriteLocal(i)
        \/ WriteFlight(i)
        \/ Suspend(i)
        \/ FinishSink(i)
        \/ ReturnHash(i)
    \/ \E i \in Invocations, p \in OutIdx :
        \/ LocalRecv(i, p)
        \/ LocalDropReceiver(i, p)
        \/ PushConnect(i, p)
        \/ PushRecv(i, p)
        \/ PushFail(i, p)
        \/ PushEnd(i, p)

\* The runtime keeps polling the future of execute_shuffle_write, and the
\* consumer of every channel keeps receiving what is queued: the in-process
\* consumer of a local sender, and the push task of a Flight sink.
ConsumerFairness ==
    \A i \in Invoked :
        /\ WF_vars(HashStep(i))
        /\ \A p \in OutIdx :
            /\ WF_vars(LocalRecv(i, p))
            /\ WF_vars(PushConnect(i, p))
            /\ WF_vars(PushRecv(i, p))

SpecFair == InitFair /\ [][NextFair]_vars /\ ConsumerFairness

(* ------------------------ ExecutionPlan::execute ----------------------- *)

\* `as u32` keeps the low 32 bits, taken here as two 16-bit halves.
Half == 65536

as_u32(x) == (x % Half) + Half * ((x \div Half) % Half)

\* Mutant of metadata_row: the statistics builders are handed to the struct
\* builder in another order (num_batches first).
metadata_row_swapped(loc) ==
    [partition |-> as_u32(loc.partition_id),
     path |-> loc.path,
     stats |-> [num_rows |-> loc.num_batches, num_batches |-> loc.num_rows,
                num_bytes |-> loc.num_bytes]]

\* The builders' values for one ShuffleWritePartition: partition (as u32),
\* path, and the stats struct (num_rows, num_batches, num_bytes).
metadata_row(loc) ==
    [partition |-> as_u32(loc.partition_id),
     path |-> loc.path,
     stats |-> [num_rows |-> loc.num_rows, num_batches |-> loc.num_batches,
                num_bytes |-> loc.num_bytes]]

\* for loc in &part_loc { .. append_value .. }: one row per record, in order.
metadata_batch(part_loc) ==
    [k \in 1..Len(part_loc) |-> metadata_row(part_loc[k])]

\* ExecutionPlan::execute after `self.execute_shuffle_write(input_partition,
\* None).await?`: the error is returned, or the metadata batch is built and
\* returned as a MemoryStream of one batch.
Execute(i) ==
    LET c == call[i] IN
    /\ c.pc = "done"
    /\ ~c.local_senders.some
    /\ c.stream = NoStream
    /\ Commit(i, [c EXCEPT !.stream =
                     IF c.result = Ok
                     THEN [kind |-> "Ok", batches |-> <<metadata_batch(c.part_locs)>>]
                     ELSE [kind |-> c.result.kind, batches |-> <<>>]],
              chan[i])
    /\ UNCHANGED <<node, variance, metrics, dirs, files, remote, task>>

\* The node is executed through ExecutionPlan::execute (no local senders).
InitExecute ==
    /\ InitNode
    /\ call = [i \in Invoked |-> NewCall("start", NoSenders)]
    /\ chan = [i \in Invoked |-> LocalChans(NoSenders)]
    /\ task = [i \in Invoked |-> [p \in OutIdx |-> "none"]]

NextExecute ==
    \/ \E i \in Invocations :
        \/ ExecuteChild(i)
        \/ StartHash(i)
        \/ StartInvalid(i)
        \/ Pull(i)
        \/ TakeFails(i)
        \/ WriteFile(i)
        \/ WriteFlight(i)
        \/ FinishSink(i)
        \/ ReturnHash(i)
        \/ StartPassLocalDir(i)
        \/ WriteStreamToDiskOpen(i)
        \/ WriteStreamToDiskStep(i)
        \/ StartPassExecutors(i)
        \/ WriteStreamToFlightStep(i)
        \/ PassReturn(i)
        \/ Execute(i)
    \/ \E i \in Invocations, p \in OutIdx :
        \/ PushConnect(i, p)
        \/ PushRecv(i, p)
        \/ PushFail(i, p)
        \/ PushEnd(i, p)

SpecExecute == InitExecute /\ [][NextExecute]_vars

(* ------------------------ concurrent invocations ----------------------- *)

\* One node with a LocalDir output, executed concurrently on every input
\* partition of its child.
InitConcurrent ==
    /\ InitNode
    /\ output_loc.kind = "LocalDir"
    /\ call = [i \in Inputs |->
                 [NewCall("start", NoSenders) EXCEPT !.limit = ShortStream]]
    /\ chan = [i \in Inputs |-> LocalChans(NoSenders)]
    /\ task = [i \in Inputs |-> [p \in OutIdx |-> "none"]]

NextConcurrent ==
    \E i \in Invocations :
        \/ ExecuteChild(i)
        \/ StartHash(i)
        \/ StartInvalid(i)
        \/ Pull(i)
        \/ TakeFails(i)
        \/ WriteFile(i)
        \/ FinishSink(i)
        \/ ReturnHash(i)
        \/ StartPassLocalDir(i)
        \/ WriteStreamToDiskOpen(i)
        \/ WriteStreamToDiskStep(i)

SpecConcurrent == InitConcurrent /\ [][NextConcurrent]_vars

(* ------------------- concurrent pass-through pushes -------------------- *)

\* One pass-through node with an Executors output, executed concurrently on
\* every input partition of its child without local senders.
InitPassPush ==
    /\ InitNode
    /\ shuffle_output_partitioning.kind = "None"
    /\ output_loc.kind = "Executors"
    /\ call = [i \in Inputs |->
                 [NewCall("start", NoSenders) EXCEPT !.limit = ShortStream]]
    /\ chan = [i \in Inputs |-> LocalChans(NoSenders)]
    /\ task = [i \in Inputs |-> [p \in OutIdx |-> "none"]]

NextPassPush ==
    \E i \in Invocations :
        \/ ExecuteChild(i)
        \/ StartPassExecutors(i)
        \/ WriteStreamToFlightStep(i)
        \/ PassReturn(i)

SpecPassPush == InitPassPush /\ [][NextPassPush]_vars

(* --------------------- calls on a VarianceAccumulator ------------------ *)

Called(op, input, result) ==
    last' = [op |-> op, before |-> accumulator, input |-> input, result |-> result]

NoShuffle ==
    UNCHANGED <<node, metrics, dirs, files, remote, chan, task, call>>

Fed(values) ==
    IF fed.only_values /\ \A j \in 1..Len(values.slots) : values.slots[j].valid
    THEN [fed EXCEPT !.values =
              @ \o [j \in 1..Len(values.slots) |-> values.slots[j].value]]
    ELSE [only_values |-> FALSE, values |-> <<>>]

NotOnlyValues == fed' = [only_values |-> FALSE, values |-> <<>>]

UpdateBatch ==
    \E values \in Arrays :
        /\ accumulator.count + Len(values.slots) <= MaxCount
        /\ accumulator' = VarianceAccumulator_update_batch(accumulator, values)
        /\ Called("update_batch", values, OkValue(Float64None))
        /\ fed' = Fed(values)
        /\ NoShuffle

MergeBatch ==
    \E states \in StateLists :
        /\ VarianceAccumulator_merge_batch(accumulator, states).count <= MaxCount
        /\ accumulator' = VarianceAccumulator_merge_batch(accumulator, states)
        /\ Called("merge_batch", states, OkValue(Float64None))
        /\ NotOnlyValues
        /\ NoShuffle

Update ==
    \E values \in Scalars :
        /\ accumulator.count + 1 <= MaxCount
        /\ accumulator' = VarianceAccumulator_update(accumulator, values)
        /\ Called("update", values, OkValue(Float64None))
        /\ NotOnlyValues
        /\ NoShuffle

Merge ==
    \E states \in StateRows :
        /\ accumulator.count + states.count <= MaxCount
        /\ accumulator' = VarianceAccumulator_merge(accumulator, states)
        /\ Called("merge", states, OkValue(Float64None))
        /\ NotOnlyValues
        /\ NoShuffle

Evaluate ==
    /\ Called("evaluate", <<>>, VarianceAccumulator_evaluate(accumulator))
    /\ UNCHANGED <<accumulator, fed>>
    /\ NoShuffle

\* A new accumulator of either kind; no shuffle writer is executed.
InitVariance ==
    /\ \E s_type \in StatsTypes :
        /\ accumulator = VarianceAccumulator_try_new(s_type)
        /\ last = [NoCall EXCEPT !.before = VarianceAccumulator_try_new(s_type)]
    /\ fed = NoneFed
    /\ shuffle_output_partitioning = [kind |-> "None", n |-> 0]
    /\ output_loc = [kind |-> "LocalDir", len |-> 0]
    /\ metrics = [i \in Inputs |-> [input_rows |-> 0, output_rows |-> 0]]
    /\ dirs = {}
    /\ files = [path \in {} |-> 0]
    /\ remote = [key \in {} |-> 0]
    /\ call = [i \in {} |-> 0]
    /\ chan = [i \in {} |-> 0]
    /\ task = [i \in {} |-> 0]

NextVariance ==
    \/ UpdateBatch
    \/ MergeBatch
    \/ Update
    \/ Merge
    \/ Evaluate

SpecVariance == InitVariance /\ [][NextVariance]_vars

(* ----------------- merging states in rounded arithmetic ---------------- *)

\* State rows whose fields are doubles of Precision bits: of a new
\* accumulator, of accumulators fed [3], [3, 3, 3] and [5, 7], and a row of
\* count 0 with other fields set.
RoundedRows ==
    {[count |-> 0, mean |-> from_u64(0), m2 |-> from_u64(0)],
     [count |-> 0, mean |-> from_u64(5), m2 |-> from_u64(7)],
     [count |-> 1, mean |-> from_u64(3), m2 |-> from_u64(0)],
     [count |-> 3, mean |-> from_u64(3), m2 |-> from_u64(0)],
     [count |-> 2, mean |-> from_u64(6), m2 |-> from_u64(2)]}

RoundedLists == SeqsOf(RoundedRows, ArrayLens)

MergeBatchRounded ==
    \E states \in RoundedLists :
        /\ VarianceAccumulator_merge_batch_rounded(accumulator, states).count
               <= MaxCount
        /\ accumulator' = VarianceAccumulator_merge_batch_rounded(accumulator, states)
        /\ Called("merge_batch", states, OkValue(Float64None))
        /\ NotOnlyValues
        /\ NoShuffle

MergeRounded ==
    \E states \in RoundedRows :
        /\ accumulator.count + states.count <= MaxCount
        /\ accumulator' = VarianceAccumulator_merge_rounded(accumulator, states)
        /\ Called("merge", states, OkValue(Float64None))
        /\ NotOnlyValues
        /\ NoShuffle

NextRounded ==
    \/ MergeBatchRounded
    \/ MergeRounded

\* The accumulator of a final aggregation: it is only merged into, and its
\* arithmetic rounds.
SpecRounded == InitVariance /\ [][NextRounded]_vars

(* ------------------------------ properties ----------------------------- *)

HashMode == shuffle_output_partitioning.kind = "Hash"

PassThrough == shuffle_output_partitioning.kind = "None"

Succeeded(i) == call[i].pc = "done" /\ call[i].result.kind = "Ok"

OutputPartitions == 0 .. (num_output_partitions - 1)

Range(s) == {s[j] : j \in 1..Len(s)}

Count(x, s) == Cardinality({j \in 1..Len(s) : s[j] = x})

SameMultiset(s, t) ==
    /\ Len(s) = Len(t)
    /\ \A x \in Range(s) \cup Range(t) : Count(x, s) = Count(x, t)

RECURSIVE IsSubseq(_, _)
IsSubseq(s, t) ==
    IF s = <<>> THEN TRUE
    ELSE IF t = <<>> THEN FALSE
    ELSE IF Head(s) = Head(t) THEN IsSubseq(Tail(s), Tail(t))
    ELSE IsSubseq(s, Tail(t))

\* The rows of the input stream consumed so far, in arrival order.
InputRows(i) == Flatten(call[i].input)

\* The rows handed to the sink of output partition p by writes that
\* returned Ok.
WrittenRows(i, p) == Flatten(call[i].written[p])

\* The rows that are at the destination of output partition p: in the IPC
\* file, or on the channel (queued, or taken by the receiver).
DeliveredRows(i, p) ==
    LET w == call[i].writers[p] IN
    IF w.kind = "File"
    THEN (IF w.path \in DOMAIN files THEN Flatten(files[w.path].batches)
          ELSE <<>>)
    ELSE IF w.kind = "None" THEN <<>>
    ELSE Flatten(chan[i][p].received \o chan[i][p].queue)

RECURSIVE ConcatOver(_, _, _)
ConcatOver(Rows(_, _), i, n) ==
    IF n = 0 THEN <<>> ELSE ConcatOver(Rows, i, n - 1) \o Rows(i, n - 1)

\* C1: after a successful hash-mode call, for every sink
\* variant, the rows that reached the destinations of the output partitions
\* are, as a multiset, the rows of the input stream.
C1_AllRowsDelivered ==
    \A i \in Invocations :
        (HashMode /\ Succeeded(i)) =>
            SameMultiset(ConcatOver(DeliveredRows, i, num_output_partitions),
                         InputRows(i))

\* The partition the hash step assigns to a row.
AssignedPartition(row) == bucket(ahash(row.a), 0, num_output_partitions)

HasRecord(i, p) == \E r \in Range(call[i].part_locs) : r.partition_id = p

\* C3 (as stated): in hash mode an output partition to which no input row
\* was assigned has no sink (no file, no push task) and no record.
C3_NoSinkForEmptyPartition ==
    \A i \in Invocations : \A p \in OutputPartitions :
        (HashMode /\ \A row \in Range(InputRows(i)) : AssignedPartition(row) # p)
            => /\ call[i].writers[p].kind = "None"
               /\ shuffle_file_path(p, i) \notin DOMAIN files
               /\ task[i][p] = "none"
               /\ ~HasRecord(i, p)

\* C4: for every sink of every variant, num_rows is the sum of the row
\* counts of the batches whose write returned Ok and num_batches is the
\* number of those writes.
C4_CountersMatchWrites ==
    \A i \in Invocations : \A p \in OutIdx :
        LET w == call[i].writers[p] IN
        w.kind # "None" =>
            /\ w.num_rows = SumRows(call[i].written[p])
            /\ w.num_batches = Len(call[i].written[p])

\* A File sink with one counted write whose next write failed in the IPC
\* writer.
C4_Witness ==
    \E i \in Invocations : \E p \in OutIdx :
        /\ call[i].writers[p].kind = "File"
        /\ call[i].writers[p].num_batches = 1
        /\ call[i].writers[p].num_rows >= 1
        /\ Len(call[i].input) = 2
        /\ call[i].result = Err("ArrowError")
        /\ ~call[i].stream_done

\* C5 (as stated): a call that ends after the remote push of one of its
\* Flight sinks has failed ends with an error.
C5_PushFailureSurfaces ==
    [][\A i \in Invocations :
          (/\ call[i].pc # "done"
           /\ call'[i].pc = "done"
           /\ \E p \in OutIdx : task[i][p] = "failed")
              => call'[i].result.kind = "Err"]_vars

\* The sink calls of one invocation, in the order they were made.
WriteCalls(i) == SelectSeq(call[i].log, LAMBDA e : e.op = "write")

\* C6: the rows written to each output partition are a subsequence of the
\* input row sequence, and every sink write for input batch k is completed
\* before any sink write for batch k + 1.
C6_OrderPreserved ==
    \A i \in Invocations :
        /\ \A p \in OutIdx : IsSubseq(WrittenRows(i, p), InputRows(i))
        /\ LET log == call[i].log IN
           \A b \in 1..Len(log) :
              (log[b].op = "write" /\ log[b].batch > 0) =>
                  \A p \in OutputPartitions :
                      \E a \in 1..(b - 1) : log[a] = WriteCall(log[b].batch - 1, p)
        /\ LET ws == WriteCalls(i) IN
           \A a, b \in 1..Len(ws) : a < b => ws[a].batch <= ws[b].batch

\* Two input batches written to two output partitions, one of which got
\* both rows of the first batch and a row of the second.
C6_Witness ==
    \E i \in Invocations : \E p \in OutputPartitions :
        /\ HashMode /\ num_output_partitions = 2
        /\ Len(WriteCalls(i)) = 4
        /\ Len(call[i].written[p]) = 2
        /\ Len(call[i].written[p][1]) = 2
        /\ Len(call[i].written[p][2]) >= 1

\* C7: in hash mode finish is called on a sink only after the input stream
\* has ended, at most once, no write follows it, every record is emitted
\* after its sink's finish, and on success every created sink is finished
\* and has its record.
C7_FinishDiscipline ==
    \A i \in Invocations :
        LET log == call[i].log IN
        HashMode =>
            /\ \A a \in 1..Len(log) :
                log[a].op = "finish" =>
                    /\ call[i].stream_done
                    /\ \A b \in (a + 1)..Len(log) : log[b].p # log[a].p
            /\ \A r \in Range(call[i].part_locs) :
                FinishCall(r.partition_id) \in Range(log)
            /\ Succeeded(i) =>
                \A p \in OutputPartitions :
                    call[i].writers[p].kind # "None" =>
                        FinishCall(p) \in Range(log) /\ HasRecord(i, p)

\* A successful hash-mode call that wrote two batches to two File sinks and
\* finished both.
C7_Witness ==
    \E i \in Invocations :
        /\ HashMode /\ Succeeded(i) /\ num_output_partitions = 2
        /\ Len(call[i].input) = 2
        /\ \A p \in OutputPartitions :
            /\ call[i].writers[p].kind = "File"
            /\ files[call[i].writers[p].path].finished
        /\ Len(call[i].part_locs) = 2

\* C8: in pass-through mode every successful call returns exactly one
\* record, whose partition_id is the input partition index.
C8_PassThroughOneRecord ==
    \A i \in Invocations :
        (PassThrough /\ Succeeded(i)) =>
            /\ Len(call[i].part_locs) = 1
            /\ call[i].part_locs[1].partition_id = i

\* Input partition 1, pass-through to an executor, over the empty stream.
C8_Witness ==
    /\ PassThrough /\ Succeeded(1)
    /\ output_loc.kind = "Executors"
    /\ call[1].input = <<>>
    /\ call[1].part_locs[1].num_rows = 0

\* C9: in hash mode no sink (no directory, file, channel or push task)
\* exists before the first input batch arrives, and a stream that ends
\* without a batch gives an empty result list.
C9_NoSinkBeforeFirstBatch ==
    \A i \in Invocations :
        (HashMode /\ call[i].input = <<>>) =>
            /\ \A p \in OutIdx :
                /\ call[i].writers[p].kind = "None"
                /\ task[i][p] = "none"
                /\ ~call[i].local_senders.some => ~chan[i][p].exists
                /\ shuffle_file_path(p, i) \notin DOMAIN files
                /\ partition_dir(p) \notin dirs
            /\ call[i].part_locs = <<>>

\* A successful hash-mode call over the empty stream.
C9_Witness ==
    \E i \in Invocations :
        /\ HashMode /\ Succeeded(i)
        /\ call[i].input = <<>>
        /\ call[i].stream_done

\* Everything ever offered to a channel: received, queued or lost.
Offered(ch) == ch.received \o ch.queue \o ch.lost

\* C10: a write on a Flight or Local sink returns Ok and counts the batch
\* whether or not the send succeeded, so the counters cover the lost
\* batches too, no call ends with a send error, and a successful call
\* reports the lost rows; the same holds for the pass-through forward to
\* local_senders[0].
C10_LostRowsCounted ==
    \A i \in Invocations :
        /\ call[i].result.err # "SendError"
        /\ \A p \in OutIdx :
            LET w == call[i].writers[p]
                ch == chan[i][p]
            IN
            w.kind \in {"Local", "Flight"} =>
                /\ Len(call[i].written[p]) = Len(Offered(ch))
                /\ w.num_batches = Len(Offered(ch))
                /\ w.num_rows = SumRows(Offered(ch))
                /\ w.num_bytes = SumBytes(Offered(ch))
                /\ (Succeeded(i) /\ HashMode) =>
                     \E r \in Range(call[i].part_locs) :
                        /\ r.partition_id = p
                        /\ r.num_rows = SumRows(Offered(ch))
        /\ (PassThrough /\ Succeeded(i) /\ output_loc.kind = "Executors"
              /\ call[i].local_senders.some) =>
                /\ call[i].part_locs[1].num_rows = SumRows(Offered(chan[i][0]))
                /\ call[i].part_locs[1].num_batches = Len(Offered(chan[i][0]))

\* A successful hash-mode call through a Local sink whose receiver was
\* dropped before a write: the record reports rows that were never
\* delivered.
C10_Witness ==
    \E i \in Invocations : \E p \in OutIdx :
        /\ HashMode /\ Succeeded(i)
        /\ call[i].writers[p].kind = "Local"
        /\ chan[i][p].failed_sends >= 1
        /\ \E r \in Range(call[i].part_locs) :
            /\ r.partition_id = p
            /\ r.num_rows > SumRows(chan[i][p].received)
            /\ r.num_rows = SumRows(chan[i][p].lost)

\* C2: in hash mode the output partition of a row is hash(key) mod n, a
\* function of the row's key value and n alone (not of the input partition,
\* the batch, the position in the batch or the batches before), so rows
\* with equal keys land in the same output partition.
C2_PartitionByKeyOnly ==
    HashMode =>
        \A i \in Invocations :
            LET rows == [p \in OutputPartitions |-> Range(WrittenRows(i, p))] IN
            \A p \in OutputPartitions : \A r1 \in rows[p] :
                /\ p = ahash(r1.a) % num_output_partitions
                /\ \A q \in OutputPartitions : \A r2 \in rows[q] :
                      r1.a = r2.a => p = q

\* On input partition 1, rows with one key from different batches and
\* different positions went to the same partition of two, and a row with
\* another key to the other partition.
C2_Witness ==
    /\ HashMode /\ num_output_partitions = 2
    /\ \E p \in OutputPartitions :
        /\ \E r1, r2 \in Range(WrittenRows(1, p)) :
            /\ r1.a = r2.a
            /\ r1.id[1] # r2.id[1]
            /\ r1.id[2] # r2.id[2]
        /\ WrittenRows(1, 1 - p) # <<>>

\* C11: the channel of a Flight sink never holds more than 2 batches that
\* the push task has not received, and a write on the sink completes only
\* from a state in which the channel has room or its receiver is dropped.
C11_FlightBackpressure ==
    [][\A i \in Invocations : \A p \in OutIdx :
          task'[i][p] # "none" =>
              /\ Len(chan'[i][p].queue) <= FlightChannelCap
              /\ Len(call'[i].written[p]) > Len(call[i].written[p]) =>
                    \/ task[i][p] = "none"
                    \/ Len(chan[i][p].queue) < FlightChannelCap
                    \/ chan[i][p].rx_dropped]_vars

\* A write on a Flight sink is suspended: two batches are queued, the
\* receiver is alive and the third batch waits for the sink.
C11_Witness ==
    \E i \in Invocations :
        LET c == call[i]
            p == c.output_partition
        IN
        /\ c.pc = "write"
        /\ c.writers[p].kind = "Flight"
        /\ Len(chan[i][p].queue) = FlightChannelCap
        /\ ~chan[i][p].rx_dropped
        /\ Len(c.input) = 3

\* C12: once an invocation has ended (Ok, error, panic or cancellation) the
\* sender of each of its Flight sinks is dropped; the push task's stream
\* yields what was sent in FIFO order and ends only after the last queued
\* batch; and the push task eventually terminates.
C12_SenderDroppedTaskEnds ==
    /\ [](\A i \in Invoked : \A p \in OutIdx :
            task[i][p] # "none" =>
                /\ call[i].pc = "done" => chan[i][p].tx_dropped
                /\ ~chan[i][p].rx_dropped =>
                      chan[i][p].received \o chan[i][p].queue = call[i].written[p]
                /\ task[i][p] = "done" =>
                      /\ chan[i][p].tx_dropped
                      /\ chan[i][p].received = call[i].written[p])
    /\ \A i \in Invoked : \A p \in OutIdx :
          (call[i].pc = "done" /\ task[i][p] # "none")
              ~> (task[i][p] \in {"done", "failed"})

\* A cancelled invocation whose push task received both batches that were
\* sent and then saw the end of the stream.
C12_Witness ==
    \E i \in Invocations : \E p \in OutIdx :
        /\ call[i].result = Cancelled
        /\ task[i][p] = "done"
        /\ Len(chan[i][p].received) = 2

\* C13: in hash mode the variant of every sink is given by (output_loc,
\* local_senders): LocalDir gives a File sink on the partition's file, with
\* or without senders; Executors with senders a Local sink that sends on
\* senders[p]; Executors without senders a Flight sink whose task pushes
\* to execs[p]; so all sinks of an invocation have one variant.
C13_SinkVariant ==
    HashMode =>
        \A i \in Invocations :
            /\ \A p \in OutIdx :
                LET w == call[i].writers[p] IN
                w.kind # "None" =>
                    /\ output_loc.kind = "LocalDir" =>
                          /\ w.kind = "File"
                          /\ w.path = shuffle_file_path(p, i)
                          /\ task[i][p] = "none"
                    /\ (output_loc.kind = "Executors" /\ call[i].local_senders.some) =>
                          /\ w.kind = "Local"
                          /\ task[i][p] = "none"
                          /\ Offered(chan[i][p]) = call[i].written[p]
                    /\ (output_loc.kind = "Executors" /\ ~call[i].local_senders.some) =>
                          /\ w.kind = "Flight"
                          /\ task[i][p] # "none"
                          /\ Offered(chan[i][p]) = call[i].written[p]
            /\ \A p, q \in OutIdx :
                (call[i].writers[p].kind # "None" /\ call[i].writers[q].kind # "None")
                    => call[i].writers[p].kind = call[i].writers[q].kind
            /\ \A key \in DOMAIN remote :
                /\ key[1] = key[2]
                /\ task[i][key[1]] # "none"
                /\ remote[key] = chan[i][key[1]].received

\* A successful call with LocalDir and local senders supplied: both sinks
\* are File sinks.
C13_Witness ==
    \E i \in Invocations :
        /\ HashMode /\ num_output_partitions = 2
        /\ output_loc.kind = "LocalDir"
        /\ call[i].local_senders.some
        /\ \A p \in OutputPartitions : call[i].writers[p].kind = "File"
        /\ Succeeded(i)

\* C14: with an Executors output whose length differs from n under Hash,
\* or from 1 without partitioning, no call completes successfully.
C14_LengthViolationNeverSucceeds ==
    \A i \in Invocations :
        (/\ output_loc.kind = "Executors"
         /\ \/ HashMode /\ output_loc.len # num_output_partitions
            \/ PassThrough /\ output_loc.len # 1)
            => ~Succeeded(i)

\* C15: the stream returned by ExecutionPlan::execute holds exactly one
\* metadata batch of three columns (partition, path, stats) with one row
\* per ShuffleWritePartition record returned by execute_shuffle_write(i,
\* None), in the same order, each row carrying its record's partition_id,
\* path, num_rows, num_batches and num_bytes.
C15_MetadataBatch ==
    \A i \in Invocations :
        LET out == call[i].stream
            locs == call[i].part_locs
        IN
        out.kind = "Ok" =>
            /\ Succeeded(i) /\ ~call[i].local_senders.some
            /\ Len(out.batches) = 1
            /\ Len(out.batches[1]) = Len(locs)
            /\ \A k \in 1..Len(locs) :
                LET row == out.batches[1][k] IN
                /\ DOMAIN row = {"partition", "path", "stats"}
                /\ row.partition = locs[k].partition_id
                /\ row.path = locs[k].path
                /\ row.stats.num_rows = locs[k].num_rows
                /\ row.stats.num_batches = locs[k].num_batches
                /\ row.stats.num_bytes = locs[k].num_bytes

\* execute returned the metadata of a hash run to two files in which one
\* partition got a different number of rows than of batches.
C15_Witness ==
    \E i \in Invocations :
        /\ call[i].stream.kind = "Ok"
        /\ HashMode /\ num_output_partitions = 2
        /\ Len(call[i].stream.batches[1]) = 2
        /\ call[i].stream.batches[1][1].path # ""
        /\ \E k \in 1..2 :
            LET st == call[i].stream.batches[1][k].stats IN
            st.num_rows # st.num_batches

RECURSIVE SumNumRows(_)
SumNumRows(batch) ==
    IF batch = <<>> THEN 0
    ELSE batch[1].stats.num_rows + SumNumRows(Tail(batch))

\* C16: when execute succeeds in hash mode with file sinks, the num_rows of
\* the rows of the metadata batch add up to the number of rows of the
\* child's stream for the input partition, and no metadata row reports
\* more rows than the stream held.
C16_MetadataRowsSumToInput ==
    \A i \in Invocations :
        LET out == call[i].stream IN
        (HashMode /\ output_loc.kind = "LocalDir" /\ out.kind = "Ok") =>
            /\ SumNumRows(out.batches[1]) = Len(InputRows(i))
            /\ \A k \in 1..Len(out.batches[1]) :
                out.batches[1][k].stats.num_rows <= Len(InputRows(i))

\* The unit-partition test: two batches of two rows whose keys go to the two
\* output partitions; the metadata reports 2 rows for each, 4 in all.
C16_Witness ==
    \E i \in Invocations :
        /\ HashMode /\ output_loc.kind = "LocalDir"
        /\ num_output_partitions = 2
        /\ call[i].stream.kind = "Ok"
        /\ Len(call[i].input) = 2
        /\ Len(InputRows(i)) = 4
        /\ Len(call[i].stream.batches[1]) = 2
        /\ \A k \in 1..2 : call[i].stream.batches[1][k].stats.num_rows = 2

\* C17: with a LocalDir output, every file an invocation on input partition
\* i creates is <work_dir>/<job_id>/<stage_id>/<p>/data-<i>.arrow for an
\* output partition p in hash mode and <work_dir>/<job_id>/<stage_id>/<i>/
\* data.arrow in pass-through mode, and in every interleaving of the
\* invocations on distinct input partitions no path is created by two of
\* them.
C17_FilePathsDisjoint ==
    LET stage_dir == work_dir \o "/" \o job_id \o "/" \o ToString(stage_id) IN
    /\ \A i \in Invocations : \A path \in call[i].opened :
        /\ output_loc.kind = "LocalDir"
        /\ path \in DOMAIN files
        /\ HashMode =>
              \E p \in OutputPartitions :
                  path = stage_dir \o "/" \o ToString(p) \o "/data-"
                             \o ToString(i) \o ".arrow"
        /\ PassThrough =>
              path = stage_dir \o "/" \o ToString(i) \o "/data.arrow"
    /\ \A i, j \in Invocations :
        i # j => call[i].opened \cap call[j].opened = {}

\* Both invocations have created their file of the same output partition
\* and one of them is still writing.
C17_Witness ==
    /\ HashMode
    /\ Cardinality(Invocations) = 2
    /\ \A i \in Invocations : shuffle_file_path(0, i) \in call[i].opened
    /\ \E i \in Invocations : call[i].pc # "done"
    /\ \E i \in Invocations : Cardinality(call[i].opened) = 2

\* C18: evaluate returns an error exactly when count <= 1, for Sample and
\* for Population; for count >= 2 it returns m2 / count for Population and
\* m2 / (count - 1) for Sample.
C18_EvaluateNeedsTwoValues ==
    last.op = "evaluate" =>
        LET self == last.before IN
        /\ (last.result.kind = "Err") <=> (self.count <= 1)
        /\ self.count >= 2 =>
              last.result =
                  OkValue(Float64Some(f64_div(self.m2,
                      from_u64(IF self.stats_type = "Population"
                               THEN self.count ELSE self.count - 1))))

\* C19 as stated: evaluate on an accumulator whose count is 0 returns a null
\* double and no error.
C19_ZeroCountIsNull ==
    (last.op = "evaluate" /\ last.before.count = 0) =>
        last.result = OkValue(Float64None)

\* C19: evaluate on an accumulator whose count is 0 returns the Internal
\* error, for Sample and for Population, and no evaluate returns a null
\* double.
C19_ZeroCountIsError ==
    last.op = "evaluate" =>
        /\ last.before.count = 0 => last.result = ErrValue("Internal")
        /\ last.result # OkValue(Float64None)

\* evaluate was called on a Population accumulator whose count is 0 and
\* returned the error.
C19_Witness ==
    /\ last.op = "evaluate"
    /\ last.before.count = 0
    /\ last.before.stats_type = "Population"
    /\ last.result.kind = "Err"

\* The array without its null slots.
NonNull(values) ==
    [values EXCEPT !.slots = SelectSeq(@, LAMBDA slot : slot.valid)]

\* C20: update_batch leaves count, mean and m2 as they are for every null
\* slot of the array, whatever the values buffer holds there: the state
\* after update_batch(values) is the state after update_batch of the
\* non-null elements of values, in the same order.
C20_NullsSkipped ==
    last.op = "update_batch" =>
        accumulator = VarianceAccumulator_update_batch(last.before,
                                                      NonNull(last.input))

\* C21: in every state reached from a new accumulator by update,
\* update_batch, merge and merge_batch calls, count = 0 implies mean = 0 and
\* m2 = 0, also after merging states whose count is 0 and whose mean or m2
\* is not 0.
C21_EmptyMeansZero ==
    accumulator.count = 0 =>
        /\ accumulator.mean = from_u64(0)
        /\ accumulator.m2 = from_u64(0)

\* A state row of count 0 with mean 5 and m2 7 was merged into an
\* accumulator that is still empty.
C21_Witness ==
    /\ last.op \in {"merge", "merge_batch"}
    /\ accumulator.count = 0
    /\ \/ last.op = "merge" /\ last.input.count = 0
             /\ last.input.mean # from_u64(0)
       \/ last.op = "merge_batch"
             /\ \E j \in 1..Len(last.input) :
                 last.input[j].count = 0 /\ last.input[j].m2 # from_u64(0)

RECURSIVE SumOf(_)
SumOf(xs) == IF xs = <<>> THEN 0 ELSE Head(xs) + SumOf(Tail(xs))

\* (x1 + ... + xk) / k
MeanOf(xs) == f64(SumOf(xs), Len(xs))

\* (x1 - mu)^2 + ... + (xk - mu)^2
RECURSIVE SumOfSquares(_, _)
SumOfSquares(xs, mu) ==
    IF xs = <<>> THEN from_u64(0)
    ELSE LET d == f64_sub(from_u64(Head(xs)), mu) IN
         f64_add(f64_mul(d, d), SumOfSquares(Tail(xs), mu))

Float64Array(xs) ==
    [data_type |-> "Float64", slots |-> [j \in 1..Len(xs) |-> Slot(TRUE, xs[j])]]

\* evaluate() after update_batch(xs) on a new accumulator.
VarianceOf(s_type, xs) ==
    VarianceAccumulator_evaluate(
        VarianceAccumulator_update_batch(VarianceAccumulator_try_new(s_type),
                                         Float64Array(xs)))

\* C22: from a new accumulator, after update_batch over the non-null values
\* x1..xk, count = k, mean = (x1 + ... + xk) / k and m2 is the sum of the
\* (xi - mean)^2; evaluate then gives m2 / k for Population (2 for
\* [1,2,3,4,5]) and m2 / (k - 1) for Sample (5/2 for [1,2,3,4,5]).
C22_UpdateBatchMoments ==
    /\ (fed.only_values /\ fed.values # <<>>) =>
          LET xs == fed.values
              k == Len(xs)
          IN
          /\ accumulator.count = k
          /\ accumulator.mean = MeanOf(xs)
          /\ accumulator.m2 = SumOfSquares(xs, MeanOf(xs))
          /\ (last.op = "evaluate" /\ k >= 2) =>
                last.result =
                    OkValue(Float64Some(
                        f64_div(SumOfSquares(xs, MeanOf(xs)),
                                from_u64(IF accumulator.stats_type = "Population"
                                         THEN k ELSE k - 1))))
    /\ VarianceOf("Population", <<1, 2, 3, 4, 5>>) = OkValue(Float64Some(f64(2, 1)))
    /\ VarianceOf("Sample", <<1, 2, 3, 4, 5>>) = OkValue(Float64Some(f64(5, 2)))

\* The accumulator of the given kind that holds a state row.
FromState(s_type, row) ==
    [m2 |-> row.m2, mean |-> row.mean, count |-> row.count, stats_type |-> s_type]

\* C23: merging partial states is commutative and associative: for the
\* accumulator A and any state rows B, C, merging B then C into A gives the
\* count, mean and m2 of merging C then B into A, and of merging into A the
\* state obtained by merging C into B; and the merge just made gives what
\* merging the accumulator's former state into the incoming state gives.
C23_MergeCommutesAssociates ==
    LET A == accumulator
        t == accumulator.stats_type
    IN
    /\ \A B, C \in StateRows :
        LET BC == VarianceAccumulator_merge(VarianceAccumulator_merge(A, B), C)
            CB == VarianceAccumulator_merge(VarianceAccumulator_merge(A, C), B)
            B_C == VarianceAccumulator_merge(FromState(t, B), C)
        IN
        /\ state(BC) = state(CB)
        /\ state(BC) = state(VarianceAccumulator_merge(A, state(B_C)))
    /\ (last.op = "merge" /\ last.before.count > 0 /\ last.input.count > 0) =>
          state(accumulator) =
              state(VarianceAccumulator_merge(FromState(t, last.input),
                                              state(last.before)))

\* A state of two values with another mean was merged into an accumulator
\* that held a value.
C23_Witness ==
    /\ last.op = "merge"
    /\ last.before.count = 1
    /\ last.input.count = 2
    /\ last.input.m2 # from_u64(0)
    /\ last.input.mean # last.before.mean
    /\ accumulator.count = 3

\* The state of a new accumulator after update_batch over the values xs.
StateOf(xs) ==
    state(VarianceAccumulator_update_batch(VarianceAccumulator_try_new("Sample"),
                                           Float64Array(xs)))

AllValid(values) == \A j \in 1..Len(values.slots) : values.slots[j].valid

\* C24: for the accumulator A and any non-null values x1..xk, update_batch
\* of A with x1..xk gives the count, mean and m2 that merging into A the
\* state of a new accumulator updated with x1..xk gives; the update_batch
\* just made is such a merge; and merging the states of [1..5] and [6..10]
\* gives the state of [1..10], of population variance 33/4.
C24_UpdateIsMerge ==
    /\ \A xs \in SeqsOf(Values \cup {0}, ArrayLens) :
        state(VarianceAccumulator_update_batch(accumulator, Float64Array(xs)))
            = state(VarianceAccumulator_merge(accumulator, StateOf(xs)))
    /\ (last.op = "update_batch" /\ AllValid(last.input)) =>
          state(accumulator) =
              state(VarianceAccumulator_merge(last.before,
                  StateOf([j \in 1..Len(last.input.slots) |->
                              last.input.slots[j].value])))
    /\ LET merged == VarianceAccumulator_merge(
                          FromState("Population", StateOf(<<1, 2, 3, 4, 5>>)),
                          StateOf(<<6, 7, 8, 9, 10>>))
       IN
       /\ state(merged) = StateOf(<<1, 2, 3, 4, 5, 6, 7, 8, 9, 10>>)
       /\ VarianceAccumulator_evaluate(merged) = OkValue(Float64Some(f64(33, 4)))

\* update_batch over two different non-null values was made on an
\* accumulator that held a value.
C24_Witness ==
    /\ last.op = "update_batch"
    /\ AllValid(last.input)
    /\ Len(last.input.slots) = 2
    /\ last.input.slots[1].value # last.input.slots[2].value
    /\ last.before.count = 1
    /\ accumulator.count = 3
    /\ accumulator.m2 # from_u64(0)

\* The rows of a list of state rows that merge_batch does not skip.
Counted(states) == SelectSeq(states, LAMBDA row : row.count > 0)

\* C25: for merge and for merge_batch, merging a state of count 0 leaves
\* count, mean and m2 as they are whatever the state's mean and m2 are, and
\* merging a state of count > 0 into an accumulator of count 0 makes count,
\* mean and m2 exactly the state's.
C25_MergeEmptyCases ==
    /\ last.op = "merge" =>
          /\ last.input.count = 0 => state(accumulator) = state(last.before)
          /\ (last.input.count > 0 /\ last.before.count = 0) =>
                state(accumulator) = last.input
    /\ last.op = "merge_batch" =>
          /\ Counted(last.input) = <<>> => state(accumulator) = state(last.before)
          /\ (Len(Counted(last.input)) = 1 /\ last.before.count = 0) =>
                state(accumulator) = Counted(last.input)[1]

\* C26: when a hash-mode call fails while it consumes the input (stream
\* error, key expression error, take error, sink creation or sink write
\* error), finish has been invoked on no sink, no ShuffleWritePartition
\* record is returned, and the sinks that were opened are only dropped: the
\* files created are in place and unfinished, the senders are dropped.
C26_FailureLeavesSinksUnfinished ==
    \A i \in Invocations :
        LET c == call[i] IN
        (HashMode /\ c.pc = "done" /\ c.result.kind = "Err" /\ ~c.stream_done) =>
            /\ \A k \in 1..Len(c.log) : c.log[k].op # "finish"
            /\ c.part_locs = <<>>
            /\ \A path \in c.opened :
                path \in DOMAIN files /\ ~files[path].finished
            /\ \A p \in OutIdx :
                /\ c.writers[p].kind = "File" =>
                      /\ c.writers[p].path \in DOMAIN files
                      /\ ~files[c.writers[p].path].finished
                /\ c.writers[p].kind \in {"Local", "Flight"} =>
                      chan[i][p].tx_dropped

\* The write to the second output partition failed after a batch had been
\* written to the file of the first.
C26_Witness ==
    \E i \in Invocations :
        /\ HashMode /\ num_output_partitions = 2
        /\ call[i].pc = "done" /\ call[i].result.kind = "Err"
        /\ ~call[i].stream_done
        /\ call[i].writers[0].kind = "File"
        /\ Len(files[call[i].writers[0].path].batches) >= 1
        /\ call[i].output_partition = 1

Counters(w) ==
    [num_batches |-> w.num_batches, num_rows |-> w.num_rows,
     num_bytes |-> w.num_bytes]

\* C27: a write to a File sink that fails in the IPC writer leaves the
\* sink's num_batches, num_rows and num_bytes as they were; in every step
\* the counters of a File sink change only by a write that returned Ok, and
\* then by that batch.
C27_FailedFileWriteKeepsCounters ==
    [][\A i \in Invocations, p \in OutIdx :
        LET w == call[i].writers[p]
            after == call'[i].writers[p]
            written == call[i].written[p]
            written_after == call'[i].written[p]
        IN
        after.kind = "File" =>
            IF Len(written_after) = Len(written) + 1
            THEN Counters(after) =
                     Counters(count_batch(IF w.kind = "File" THEN w
                                          ELSE FileShuffleWriter_new(after.path),
                                          written_after[Len(written_after)]))
            ELSE /\ w.kind = "File"
                 /\ written_after = written
                 /\ Counters(after) = Counters(w)]_vars

\* The IPC write of the second batch to an existing File sink failed: the
\* sink still counts the one batch written before.
C27_Witness ==
    \E i \in Invocations :
        LET c == call[i]
            p == c.output_partition
        IN
        /\ HashMode
        /\ c.pc = "done" /\ c.result = Err("ArrowError") /\ ~c.stream_done
        /\ Len(c.input) = 2
        /\ c.writers[p].kind = "File"
        /\ Len(c.written[p]) = 1
        /\ c.writers[p].num_batches = 1
        /\ c.writers[p].num_rows > 0

InvalidPartitioning == shuffle_output_partitioning.kind \notin {"None", "Hash"}

\* Nothing was created by the call: no sink, directory, file, channel
\* traffic, push task or partition record.
NothingCreated(i) ==
    /\ \A p \in OutIdx :
        /\ call[i].writers[p] = NoWriter
        /\ task[i][p] = "none"
        /\ Offered(chan[i][p]) = <<>>
    /\ call[i].opened = {} /\ dirs = {} /\ DOMAIN files = {} /\ DOMAIN remote = {}
    /\ call[i].part_locs = <<>>
    /\ call[i].log = <<>>

\* C28 as stated: on a node whose partitioning is neither absent nor Hash the
\* call returns a Plan error and creates no sink, file or partition record.
C28_InvalidPartitioningIsPlanError ==
    \A i \in Invocations :
        (InvalidPartitioning /\ call[i].pc = "done") =>
            /\ call[i].result = Err("Plan")
            /\ NothingCreated(i)

\* C28: on a node whose partitioning is neither absent nor Hash no call ever
\* creates a sink, file or partition record, and the call returns an error:
\* the Execution error "Invalid shuffle partitioning scheme" once the child
\* plan has been executed, or the error of executing the child plan.
C28_InvalidPartitioningFails ==
    \A i \in Invocations :
        InvalidPartitioning =>
            /\ NothingCreated(i)
            /\ call[i].pc \in {"start", "match", "done"}
            /\ call[i].pc = "done" =>
                  call[i].result \in {Err("Execution"), Err("child plan")}
            /\ (call[i].pc = "done" /\ call[i].result # Err("child plan")) =>
                  call[i].result = Err("Execution")

\* The call on a round-robin node has returned the Execution error.
C28_Witness ==
    \E i \in Invocations :
        /\ shuffle_output_partitioning.kind = "RoundRobinBatch"
        /\ call[i].pc = "done"
        /\ call[i].result = Err("Execution")

HashOne ==
    /\ shuffle_output_partitioning.kind = "Hash"
    /\ shuffle_output_partitioning.n = 1

\* C29: with Hash(exprs, 1) every row goes to output partition 0 through the
\* hash path: each input batch is written whole to the sink of partition 0
\* and to no other, and a call that returns Ok after at least one input batch
\* returns exactly one record, with partition_id 0 whatever the input
\* partition, and for LocalDir the path
\* <work_dir>/<job_id>/<stage_id>/0/data-<input_partition>.arrow.
C29_HashOneWritesPartitionZero ==
    \A i \in Invocations :
        HashOne =>
            /\ \A k \in 1..Len(call[i].log) : call[i].log[k].p = 0
            /\ \A p \in OutIdx \ {0} :
                  call[i].writers[p] = NoWriter /\ call[i].written[p] = <<>>
            /\ \A k \in 1..Len(call[i].written[0]) :
                  call[i].written[0][k] = call[i].input[k]
            /\ (call[i].pc = "done" /\ call[i].result = Ok
                    /\ call[i].input # <<>>) =>
                  /\ Len(call[i].part_locs) = 1
                  /\ call[i].part_locs[1].partition_id = 0
                  /\ call[i].written[0] = call[i].input
                  /\ call[i].part_locs[1].num_rows = SumRows(call[i].input)
                  /\ output_loc.kind = "LocalDir" =>
                        /\ call[i].part_locs[1].path =
                              work_dir \o "/" \o job_id \o "/" \o ToString(stage_id)
                                  \o "/0/data-" \o ToString(i) \o ".arrow"
                        /\ DOMAIN files = {call[i].part_locs[1].path}
                        /\ files[call[i].part_locs[1].path].batches = call[i].input

\* A call on input partition 1 of a Hash(exprs, 1) node writing to LocalDir
\* has returned its record after reading rows.
C29_Witness ==
    \E i \in Invocations :
        /\ HashOne
        /\ output_loc.kind = "LocalDir"
        /\ i # 0
        /\ call[i].pc = "done"
        /\ call[i].result = Ok
        /\ SumRows(call[i].input) > 0
        /\ Len(call[i].part_locs) = 1
        /\ call[i].part_locs[1].partition_id = 0

RECURSIVE PushedBy(_)
\* The number of batches the invocations in S have pushed.
PushedBy(S) ==
    IF S = {} THEN 0
    ELSE LET i == CHOOSE x \in S : TRUE
         IN  Len(call[i].written[0]) + PushedBy(S \ {i})

\* C30: in pass-through mode with Executors and no local senders every
\* invocation pushes under partition 0 of the single executor, whatever its
\* input partition, so the batches of all invocations arrive under that one
\* key, while the record an invocation returns carries its own input
\* partition as partition_id.
C30_PassThroughPushKeyedByZero ==
    /\ DOMAIN remote \subseteq {<<0, 0>>}
    /\ PushedBy(Invocations) =
          (IF <<0, 0>> \in DOMAIN remote THEN Len(remote[<<0, 0>>]) ELSE 0)
    /\ \A i \in Invocations :
          (call[i].pc = "done" /\ call[i].result = Ok) =>
              /\ Len(call[i].part_locs) = 1
              /\ call[i].part_locs[1].partition_id = i
              /\ call[i].part_locs[1].path = ""

\* Two invocations on different input partitions have both pushed a batch
\* and returned records with different partition ids, and the executor
\* holds both batches under the key of partition 0.
C30_Witness ==
    \E i, j \in Invocations :
        /\ i # j
        /\ call[i].pc = "done" /\ call[i].result = Ok
        /\ call[j].pc = "done" /\ call[j].result = Ok
        /\ call[i].written[0] # <<>> /\ call[j].written[0] # <<>>
        /\ call[i].part_locs[1].partition_id # call[j].part_locs[1].partition_id
        /\ DOMAIN remote = {<<0, 0>>}
        /\ Len(remote[<<0, 0>>]) = Len(call[i].written[0]) + Len(call[j].written[0])

RECURSIVE RowsWritten(_, _)
\* The rows of the batches invocation i has written to the sinks of the
\* output partitions in S.
RowsWritten(i, S) ==
    IF S = {} THEN 0
    ELSE LET p == CHOOSE x \in S : TRUE
         IN  SumRows(call[i].written[p]) + RowsWritten(i, S \ {p})

\* The invocation is between two input batches, or has returned Ok.
BatchBoundary(i) ==
    \/ call[i].pc \in {"pull", "finish"}
    \/ call[i].pc = "done" /\ call[i].result = Ok

\* C31: in hash mode the input_rows metric of an input partition is the
\* number of rows its own invocation has consumed and its output_rows metric
\* the number of rows that invocation has written, whatever the invocations
\* on the other input partitions have done; once an input batch has been
\* fully processed, and at successful completion, the two are equal.
C31_MetricsPerInputPartition ==
    \A i \in Invocations :
        HashMode =>
            /\ metrics[i].input_rows = SumRows(call[i].input)
            /\ metrics[i].output_rows = RowsWritten(i, OutIdx)
            /\ BatchBoundary(i) =>
                  metrics[i].output_rows = metrics[i].input_rows

\* One invocation has returned Ok after two rows while the invocation on
\* the other input partition has written one of the two rows it consumed.
C31_Witness ==
    \E i, j \in Invocations :
        /\ i # j
        /\ HashMode
        /\ call[i].pc = "done" /\ call[i].result = Ok
        /\ metrics[i].input_rows = 2 /\ metrics[i].output_rows = 2
        /\ call[j].pc = "write"
        /\ metrics[j].input_rows = 2 /\ metrics[j].output_rows = 1

RECURSIVE RowsOfBatch(_, _, _)
\* The rows of the k-th batch written to the sinks of the output partitions
\* in S by invocation i.
RowsOfBatch(i, k, S) ==
    IF S = {} THEN 0
    ELSE LET p == CHOOSE x \in S : TRUE
         IN  Len(call[i].written[p][k]) + RowsOfBatch(i, k, S \ {p})

Suspended(i) == call[i].pc = "send"

\* C33: the invocation eventually returns when the consumer of every Local
\* or Flight channel keeps receiving what is queued or drops its receiver;
\* with File sinks (and with any sink whose write is not suspended on a full
\* channel) the invocation can always take its next step by itself.
C33_EventuallyReturns ==
    /\ \A i \in Invoked : <>(call[i].pc = "done")
    /\ [](\A i \in Invoked :
            (call[i].pc # "done" /\ ~Suspended(i)) => ENABLED HashStep(i))
    /\ [](\A i \in Invoked :
            Suspended(i) =>
                (ENABLED HashStep(i) <=> can_send(chan[i][call[i].output_partition])))
    /\ [](\A i \in Invoked : output_loc.kind = "LocalDir" => ~Suspended(i))

\* The call has returned Ok after a write that had been suspended: the
\* channel of a sink has received more batches than it can hold.
C33_Witness ==
    \E i \in Invocations : \E p \in OutIdx :
        /\ call[i].pc = "done" /\ call[i].result = Ok
        /\ chan[i][p].exists /\ ~chan[i][p].rx_dropped
        /\ Len(chan[i][p].received) > chan[i][p].cap

\* C34: in hash mode a write is suspended on the channel of its own output
\* partition, which is full; while it is suspended and that channel stays
\* full with its receiver alive, no step changes the invocation, whatever the
\* consumers of the other partitions do: it writes to no other partition,
\* pulls no input batch and does not complete. The step that ends the
\* suspension is the write to that same partition.
C34_HeadOfLineBlocking ==
    [][\A i \in Invocations :
          LET p == call[i].output_partition IN
          /\ (~Suspended(i) /\ call'[i].pc = "send") =>
                /\ call'[i].output_partition = p
                /\ call[i].writers[p].kind \in {"Local", "Flight"}
                /\ Len(chan[i][p].queue) = chan[i][p].cap
                /\ ~chan[i][p].rx_dropped
                /\ call'[i] = [call[i] EXCEPT !.pc = "send"]
          /\ Suspended(i) =>
                /\ (Len(chan[i][p].queue) = chan[i][p].cap /\ ~chan[i][p].rx_dropped)
                      => call'[i] = call[i]
                /\ call'[i] # call[i] =>
                      /\ call'[i].input = call[i].input
                      /\ call'[i].written =
                            [call[i].written EXCEPT ![p] = Append(@, output_batch(call[i]))]
                      /\ call'[i].pc \in {"write", "pull"}]_vars

\* The write to output partition 0 is suspended on its full channel, whose
\* receiver is alive, while the consumer of output partition 1 has received
\* everything sent to it and waits for more.
C34_Witness ==
    \E i \in Invocations :
        /\ HashMode /\ num_output_partitions = 2
        /\ Suspended(i)
        /\ call[i].output_partition = 0
        /\ Len(chan[i][0].queue) = chan[i][0].cap /\ ~chan[i][0].rx_dropped
        /\ chan[i][1].exists /\ ~chan[i][1].rx_dropped
        /\ chan[i][1].queue = <<>> /\ chan[i][1].received # <<>>

\* What a run without a failure sends to the channel of output partition p
\* for the input batch: the batch itself in pass-through mode, its rows of
\* partition p in hash mode.
SentFor(input_batch, p) ==
    IF PassThrough THEN input_batch
    ELSE take(input_batch,
              build_indices(create_hashes(evaluate(input_batch)),
                            num_output_partitions)[p])

\* C35: whatever way an invocation ends, each of its Local or Flight
\* channels has been offered only batches, namely what a successful run
\* sends to that channel for the first input batches, and is then closed by
\* the drop of its sender: no error item is ever sent, so after an error the
\* receiver observes what it observes after a successful run over a shorter
\* input.
C35_NoErrorItemOnChannel ==
    \A i \in Invocations : \A p \in OutIdx :
        LET ch == chan[i][p]
            sent == Offered(ch)
        IN
        ch.exists =>
            /\ Len(sent) <= Len(call[i].input)
            /\ \A k \in 1..Len(sent) : sent[k] = SentFor(call[i].input[k], p)
            /\ call[i].pc = "done" => ch.tx_dropped
            /\ (Succeeded(i) /\ output_loc.kind = "Executors"
                    /\ p < (IF HashMode THEN num_output_partitions ELSE 1)) =>
                  Len(sent) = Len(call[i].input)

\* A call has ended with an error after a batch was sent on a channel
\* whose receiver is alive: the channel holds fewer batches than the input
\* had and is closed.
C35_Witness ==
    \E i \in Invocations : \E p \in OutIdx :
        /\ call[i].pc = "done" /\ call[i].result.kind = "Err"
        /\ chan[i][p].exists /\ ~chan[i][p].rx_dropped
        /\ chan[i][p].tx_dropped
        /\ Offered(chan[i][p]) # <<>>
        /\ Len(Offered(chan[i][p])) < Len(call[i].input)

RECURSIVE MergeEach(_, _)
\* One merge call per state row, in the order of the rows.
MergeEach(self, states) ==
    IF states = <<>> THEN self
    ELSE MergeEach(VarianceAccumulator_merge(self, Head(states)), Tail(states))

\* C36: in exact arithmetic merge_batch over the state rows s1..sk leaves
\* the accumulator with the count, mean and m2 that k successive merge calls
\* with s1..sk leave, from every accumulator reached by updates and merges,
\* the empty one included.
C36_MergeBatchIsMergeEach ==
    last.op = "merge_batch" =>
        /\ accumulator = VarianceAccumulator_merge_batch(last.before, last.input)
        /\ state(accumulator) = state(MergeEach(last.before, last.input))

\* merge_batch has merged two states of different means into an empty
\* accumulator.
C36_Witness ==
    /\ last.op = "merge_batch"
    /\ last.before.count = 0
    /\ Len(last.input) = 2
    /\ last.input[1].count > 0 /\ last.input[2].count > 0
    /\ last.input[1].mean # last.input[2].mean
    /\ accumulator.count = last.input[1].count + last.input[2].count
    /\ accumulator.m2 # f64_add(last.input[1].m2, last.input[2].m2)

\* A new accumulator of the kind of self that has merged the state of self.
RoundTrip(self) ==
    VarianceAccumulator_merge(VarianceAccumulator_try_new(self.stats_type),
                              state(self))

\* C37: for every accumulator reached by updates and merges, a new
\* accumulator of the same kind that merges its state [count, mean, m2] has
\* the same count, mean and m2, and evaluate gives the same value or the same
\* error on both.
C37_StateRoundTrip ==
    /\ RoundTrip(accumulator) = accumulator
    /\ VarianceAccumulator_evaluate(RoundTrip(accumulator)) =
          VarianceAccumulator_evaluate(accumulator)

\* An accumulator that holds three values after an update_batch and a
\* merge, with a mean and an m2 that differ and a variance to evaluate.
C37_Witness ==
    /\ last.op = "merge"
    /\ last.before.count > 0 /\ last.input.count > 0
    /\ accumulator.count = 3
    /\ accumulator.m2 # from_u64(0)
    /\ accumulator.mean # accumulator.m2
    /\ VarianceAccumulator_evaluate(accumulator).kind = "Ok"

====
